---- MODULE Spec2Model ----
(***************************************************************************)
(* Dolby Vision extension metadata: the block codecs of levels 8, 9 and    *)
(* 10, the tagged ExtMetadataBlock dispatch, and the DM-data envelope      *)
(* (CM v2.9 / CM v4.0) with its parse, write, add_block and remove_level.  *)
(* The wire is a sequence of bits (0/1), most significant bit first.       *)
(***************************************************************************)
EXTENDS Integers, Sequences, FiniteSets, TLC

VARIABLES env, input, output, last, dovi

vars == <<env, input, output, last, dovi>>

(***************************************************************************)
(* Bounds of the model.                                                    *)
(***************************************************************************)
\* most blocks an envelope is grown to by add_block
MaxBlocks == 2
\* most block records in a payload handed to parse
MaxRecs == 2
\* most NAL units of a stream handed to write_nals
MaxNals == 3
\* most frames of a GenerateConfig
MaxFrames == 3

(***************************************************************************)
(* Bit cursor (bitvec_helpers BitVecReader / BitVecWriter).                *)
(***************************************************************************)
Pow2(n) == 2 ^ n

\* the n low bits of v, most significant first (write_n of the be bytes)
WriteN(v, n) == [i \in 1..n |-> ((v % Pow2(n)) \div Pow2(n - i)) % 2]

Zeros(n) == [i \in 1..n |-> 0]

RECURSIVE BitLen(_)
\* number of bits of v (v >= 1)
BitLen(v) == IF v <= 1 THEN 1 ELSE 1 + BitLen(v \div 2)

\* unsigned Exp-Golomb: k zero bits, then v+1 in k+1 bits
WriteUe(v) == Zeros(BitLen(v + 1) - 1) \o WriteN(v + 1, BitLen(v + 1))

\* zero bits that bring a writer holding n bits to a byte boundary
AlignZeros(n) == Zeros((8 - (n % 8)) % 8)

RECURSIVE BitsVal(_, _, _)
\* the number held by bits[pos+1 .. pos+n], big endian
BitsVal(bits, pos, n) ==
    IF n = 0 THEN 0 ELSE 2 * BitsVal(bits, pos, n - 1) + bits[pos + n]

\* a reader is [bits, pos, ok]; ok turns FALSE on a read past the end
Reader(bits) == [bits |-> bits, pos |-> 0, ok |-> TRUE]

CanRead(r, n) == r.ok /\ r.pos + n <= Len(r.bits)

\* get_n: the value read (0 when the read runs past the end)
GetN(r, n) == IF CanRead(r, n) THEN BitsVal(r.bits, r.pos, n) ELSE 0

\* the reader after get_n
Skip(r, n) ==
    IF CanRead(r, n) THEN [r EXCEPT !.pos = r.pos + n] ELSE [r EXCEPT !.ok = FALSE]

RECURSIVE LeadingZeros(_, _)
LeadingZeros(bits, pos) ==
    IF pos + 1 > Len(bits) THEN 0
    ELSE IF bits[pos + 1] = 1 THEN 0
    ELSE 1 + LeadingZeros(bits, pos + 1)

\* get_ue: [ok, value, r]
GetUe(r) ==
    LET k == LeadingZeros(r.bits, r.pos)
    IN  IF CanRead(r, 2 * k + 1)
        THEN [ok |-> TRUE, value |-> BitsVal(r.bits, r.pos + k, k + 1) - 1,
              r |-> [r EXCEPT !.pos = r.pos + 2 * k + 1]]
        ELSE [ok |-> FALSE, value |-> 0, r |-> [r EXCEPT !.ok = FALSE]]

IsAligned(pos) == pos % 8 = 0

(***************************************************************************)
(* Program constants.                                                      *)
(***************************************************************************)
MAX_12_BIT_VALUE == 4095
MAX_PQ_LUMINANCE == 10000
PRESET_TARGET_DISPLAYS == {1, 16, 18, 21, 27, 28, 37, 38, 42, 48, 49}

\* Option::None of an Option<u16>
None == -1

CmVersions == {"V29", "V40"}

ALLOWED_BLOCK_LEVELS(v) ==
    IF v = "V29" THEN {1, 2, 3, 4, 5, 6} ELSE {3, 8, 9, 10, 11, 254}

VARIABLE_LENGTH_BLOCK_LEVELS(v) ==
    IF v = "V29" THEN {} ELSE {8, 9, 10}

(***************************************************************************)
(* Level 8: creative trims (blocks/level8.rs).                             *)
(***************************************************************************)
Level8Default ==
    [variant |-> "Level8",
     target_display_index |-> 1,
     trim_slope |-> 2048, trim_offset |-> 2048, trim_power |-> 2048,
     trim_chroma_weight |-> 2048, trim_saturation_gain |-> 2048,
     ms_weight |-> 2048,
     target_mid_contrast |-> 2048, clip_trim |-> 2048,
     saturation_vector |-> <<128, 128, 128, 128, 128, 128>>,
     hue_vector |-> <<128, 128, 128, 128, 128, 128>>]

Level8PossibleRequiredBits == <<80, 92, 104, 152, 200>>

\* faulty variant of Level8ModifiedFieldsFlag: a modified hue vector is not counted
Level8ModifiedFieldsFlag_NoHue(b) ==
    LET last_field_flag == Pow2(Len(Level8PossibleRequiredBits)) \div 4
    IN  (IF b.saturation_vector # Level8Default.saturation_vector
            THEN last_field_flag \div 2 ELSE 0)
      + (IF b.clip_trim # Level8Default.clip_trim
            THEN last_field_flag \div 4 ELSE 0)
      + (IF b.target_mid_contrast # Level8Default.target_mid_contrast
            THEN last_field_flag \div 8 ELSE 0)

\* bit i of the flag is set when optional group i differs from the default
Level8ModifiedFieldsFlag(b) ==
    LET last_field_flag == Pow2(Len(Level8PossibleRequiredBits)) \div 4
    IN  (IF b.hue_vector # Level8Default.hue_vector
            THEN last_field_flag ELSE 0)
      + (IF b.saturation_vector # Level8Default.saturation_vector
            THEN last_field_flag \div 2 ELSE 0)
      + (IF b.clip_trim # Level8Default.clip_trim
            THEN last_field_flag \div 4 ELSE 0)
      + (IF b.target_mid_contrast # Level8Default.target_mid_contrast
            THEN last_field_flag \div 8 ELSE 0)

\* the value at r.pos + off, n bits wide (0 past the end)
At(r, off, n) ==
    IF r.pos + off + n <= Len(r.bits) THEN BitsVal(r.bits, r.pos + off, n) ELSE 0

\* bits Level8Parse consumes for a declared length
Level8ParseBits(ext_block_length) ==
    80 + (IF ext_block_length > 10 THEN 12 ELSE 0)
       + (IF ext_block_length > 12 THEN 12 ELSE 0)
       + (IF ext_block_length > 13 THEN 48 ELSE 0)
       + (IF ext_block_length > 19 THEN 48 ELSE 0)

\* ExtMetadataBlockLevel8::parse: [block, r]
Level8Parse(ext_block_length, r) ==
    LET len  == ext_block_length
        oMid == 80
        oClp == oMid + (IF len > 10 THEN 12 ELSE 0)
        oSat == oClp + (IF len > 12 THEN 12 ELSE 0)
        oHue == oSat + (IF len > 13 THEN 48 ELSE 0)
        d    == Level8Default
    IN  [block |->
           [variant |-> "Level8",
            target_display_index |-> At(r, 0, 8),
            trim_slope |-> At(r, 8, 12),
            trim_offset |-> At(r, 20, 12),
            trim_power |-> At(r, 32, 12),
            trim_chroma_weight |-> At(r, 44, 12),
            trim_saturation_gain |-> At(r, 56, 12),
            ms_weight |-> At(r, 68, 12),
            target_mid_contrast |->
                IF len > 10 THEN At(r, oMid, 12) ELSE d.target_mid_contrast,
            clip_trim |->
                IF len > 12 THEN At(r, oClp, 12) ELSE d.clip_trim,
            saturation_vector |->
                IF len > 13 THEN [i \in 1..6 |-> At(r, oSat + 8 * (i - 1), 8)]
                ELSE d.saturation_vector,
            hue_vector |->
                IF len > 19 THEN [i \in 1..6 |-> At(r, oHue + 8 * (i - 1), 8)]
                ELSE d.hue_vector],
         r |-> Skip(r, Level8ParseBits(len))]

Level8Validate(b) ==
    /\ b.trim_slope <= MAX_12_BIT_VALUE
    /\ b.trim_offset <= MAX_12_BIT_VALUE
    /\ b.trim_power <= MAX_12_BIT_VALUE
    /\ b.trim_chroma_weight <= MAX_12_BIT_VALUE
    /\ b.trim_saturation_gain <= MAX_12_BIT_VALUE
    /\ b.ms_weight <= MAX_12_BIT_VALUE
    /\ b.target_mid_contrast <= MAX_12_BIT_VALUE
    /\ b.clip_trim <= MAX_12_BIT_VALUE

RECURSIVE WriteBytes(_)
\* a run of u8 fields, 8 bits each
WriteBytes(vs) ==
    IF vs = <<>> THEN <<>> ELSE WriteN(Head(vs), 8) \o WriteBytes(Tail(vs))

(***************************************************************************)
(* Level 9: source primaries (blocks/level9.rs). primaries holds the eight *)
(* Option<u16> fields red_x .. white_y.                                    *)
(***************************************************************************)
NoPrimaries == <<None, None, None, None, None, None, None, None>>

Level9Default ==
    [variant |-> "Level9", source_primary_index |-> 0, primaries |-> NoPrimaries]

AnyIsNone(p) == \E i \in 1..8 : p[i] = None

\* faulty variant of Level9RequiredBits: short only when no primary is set
Level9RequiredBits_AllNone(b) ==
    136 - (IF b.primaries = NoPrimaries THEN 128 ELSE 0)

Level9RequiredBits(b) == 136 - (IF AnyIsNone(b.primaries) THEN 128 ELSE 0)

Level9BytesSize(b) == IF Level9RequiredBits(b) = 136 THEN 17 ELSE 1

Level9ParseBits(ext_block_length) == 8 + (IF ext_block_length > 1 THEN 128 ELSE 0)

Level9Parse(ext_block_length, r) ==
    [block |->
       [variant |-> "Level9",
        source_primary_index |-> At(r, 0, 8),
        primaries |->
            IF ext_block_length > 1
            THEN [i \in 1..8 |-> At(r, 8 + 16 * (i - 1), 16)]
            ELSE NoPrimaries],
     r |-> Skip(r, Level9ParseBits(ext_block_length))]

RECURSIVE WriteU16s(_)
\* a run of unwrapped Option<u16> fields, 16 bits each
WriteU16s(vs) ==
    IF vs = <<>> THEN <<>> ELSE WriteN(Head(vs), 16) \o WriteU16s(Tail(vs))

\* the Option<u16> fields that write unwraps
Level9Unwrapped(b) == IF Level9BytesSize(b) > 1 THEN b.primaries ELSE <<>>

\* unwrap() of every field in vs returns a value (it panics on a None)
UnwrapsAll(vs) == \A i \in 1..Len(vs) : vs[i] # None

\* ExtMetadataBlockLevel9::write: [ok, bits]; ok is FALSE on a panic
Level9Write(b) ==
    [ok |-> UnwrapsAll(Level9Unwrapped(b)),
     bits |-> WriteN(b.source_primary_index, 8) \o WriteU16s(Level9Unwrapped(b))]

(***************************************************************************)
(* Level 10: custom target display (blocks/level10.rs).                    *)
(***************************************************************************)
Level10Default ==
    [variant |-> "Level10", target_display_index |-> 48,
     target_max_pq |-> 3079, target_min_pq |-> 0, target_primary_index |-> 0,
     primaries |-> NoPrimaries]

Level10RequiredBits(b) == 168 - (IF AnyIsNone(b.primaries) THEN 128 ELSE 0)

\* faulty variant of Level10BytesSize: the long form is one byte short
Level10BytesSize_Short(b) == IF Level10RequiredBits(b) = 168 THEN 20 ELSE 5

Level10BytesSize(b) == IF Level10RequiredBits(b) = 168 THEN 21 ELSE 5

Level10ParseBits(ext_block_length) == 40 + (IF ext_block_length > 5 THEN 128 ELSE 0)

Level10Parse(ext_block_length, r) ==
    [block |->
       [variant |-> "Level10",
        target_display_index |-> At(r, 0, 8),
        target_max_pq |-> At(r, 8, 12),
        target_min_pq |-> At(r, 20, 12),
        target_primary_index |-> At(r, 32, 8),
        primaries |->
            IF ext_block_length > 5
            THEN [i \in 1..8 |-> At(r, 40 + 16 * (i - 1), 16)]
            ELSE NoPrimaries],
     r |-> Skip(r, Level10ParseBits(ext_block_length))]

\* faulty variant of Level10Validate: the preset displays are accepted
Level10Validate_NoPreset(b) ==
    /\ b.target_max_pq <= MAX_PQ_LUMINANCE
    /\ b.target_min_pq <= MAX_PQ_LUMINANCE

Level10Validate(b) ==
    /\ b.target_display_index \notin PRESET_TARGET_DISPLAYS
    /\ b.target_max_pq <= MAX_PQ_LUMINANCE
    /\ b.target_min_pq <= MAX_PQ_LUMINANCE

\* the Option<u16> fields that write unwraps
Level10Unwrapped(b) == IF Level10BytesSize(b) > 5 THEN b.primaries ELSE <<>>

\* ExtMetadataBlockLevel10::write: [ok, bits]; ok is FALSE on a validation
\* error, before any bit, and on a panic
Level10Write(b) ==
    IF ~Level10Validate(b) THEN [ok |-> FALSE, bits |-> <<>>]
    ELSE [ok |-> UnwrapsAll(Level10Unwrapped(b)),
          bits |-> WriteN(b.target_display_index, 8)
                   \o WriteN(b.target_max_pq, 12)
                   \o WriteN(b.target_min_pq, 12)
                   \o WriteN(b.target_primary_index, 8)
                   \o WriteU16s(Level10Unwrapped(b))]

(***************************************************************************)
(* ExtMetadataBlockInfo: the trait's default methods (blocks/mod.rs).      *)
(***************************************************************************)
RECURSIVE RequiredBitsFrom(_, _, _)
\* the loop of required_bits: the first i in i..count-1 whose flag bit is set
RequiredBitsFrom(possible, fields_flag, i) ==
    LET count == Len(possible) - 1
        last_field_flag == Pow2(count) \div 2
    IN  IF i >= count THEN possible[1]
        ELSE IF (fields_flag \div (last_field_flag \div Pow2(i))) % 2 = 1
             THEN possible[count - i + 1]
             ELSE RequiredBitsFrom(possible, fields_flag, i + 1)

DefaultRequiredBits(possible, fields_flag) ==
    RequiredBitsFrom(possible, fields_flag, 0)

\* faulty variant of DefaultPossibleBytesSize: b >> 3, rounding down
DefaultPossibleBytesSize_Floor(possible) ==
    [i \in 1..Len(possible) |-> possible[i] \div 8]

\* possible_bytes_size: (b + b % 8) >> 3 of every possible required bits
DefaultPossibleBytesSize(possible) ==
    [i \in 1..Len(possible) |-> (possible[i] + (possible[i] % 8)) \div 8]

\* position(): the first index holding x (0 when there is none)
Position(seq, x) ==
    IF \E i \in 1..Len(seq) : seq[i] = x
    THEN CHOOSE i \in 1..Len(seq) : seq[i] = x /\ \A j \in 1..(i - 1) : seq[j] # x
    ELSE 0

Contains(seq, x) == \E i \in 1..Len(seq) : seq[i] = x

\* bytes_size: the byte size at the position of required_bits
DefaultBytesSize(possible, required) ==
    DefaultPossibleBytesSize(possible)[Position(possible, required)]

Level8RequiredBits(b) ==
    DefaultRequiredBits(Level8PossibleRequiredBits, Level8ModifiedFieldsFlag(b))

Level8BytesSize(b) ==
    DefaultBytesSize(Level8PossibleRequiredBits, Level8RequiredBits(b))

\* faulty variant of Level8Write: clip_trim is written whenever target_mid_contrast is
Level8Write_ClipWithMid(b) ==
    IF ~Level8Validate(b) THEN [ok |-> FALSE, bits |-> <<>>]
    ELSE LET length == Level8BytesSize(b)
         IN [ok |-> TRUE,
             bits |-> WriteN(b.target_display_index, 8)
                      \o WriteN(b.trim_slope, 12)
                      \o WriteN(b.trim_offset, 12)
                      \o WriteN(b.trim_power, 12)
                      \o WriteN(b.trim_chroma_weight, 12)
                      \o WriteN(b.trim_saturation_gain, 12)
                      \o WriteN(b.ms_weight, 12)
                      \o (IF length > 10 THEN WriteN(b.target_mid_contrast, 12)
                          ELSE <<>>)
                      \o (IF length > 10 THEN WriteN(b.clip_trim, 12) ELSE <<>>)
                      \o (IF length > 13 THEN WriteBytes(b.saturation_vector)
                          ELSE <<>>)
                      \o (IF length > 19 THEN WriteBytes(b.hue_vector) ELSE <<>>)]

\* ExtMetadataBlockLevel8::write: [ok, bits]
Level8Write(b) ==
    IF ~Level8Validate(b) THEN [ok |-> FALSE, bits |-> <<>>]
    ELSE LET length == Level8BytesSize(b)
         IN [ok |-> TRUE,
             bits |-> WriteN(b.target_display_index, 8)
                      \o WriteN(b.trim_slope, 12)
                      \o WriteN(b.trim_offset, 12)
                      \o WriteN(b.trim_power, 12)
                      \o WriteN(b.trim_chroma_weight, 12)
                      \o WriteN(b.trim_saturation_gain, 12)
                      \o WriteN(b.ms_weight, 12)
                      \o (IF length > 10 THEN WriteN(b.target_mid_contrast, 12)
                          ELSE <<>>)
                      \o (IF length > 12 THEN WriteN(b.clip_trim, 12) ELSE <<>>)
                      \o (IF length > 13 THEN WriteBytes(b.saturation_vector)
                          ELSE <<>>)
                      \o (IF length > 19 THEN WriteBytes(b.hue_vector) ELSE <<>>)]

(***************************************************************************)
(* Fixed-length levels and the Reserved block. Their codecs are kept as a  *)
(* raw payload of the level's required bits: [variant, level, payload].    *)
(***************************************************************************)
FixedLevels == {1, 2, 3, 4, 5, 6, 11, 254}

FixedBytesSize(level) ==
    CASE level = 1 -> 5   [] level = 2 -> 11  [] level = 3 -> 2
      [] level = 4 -> 3   [] level = 5 -> 7   [] level = 6 -> 8
      [] level = 11 -> 4  [] level = 254 -> 5

FixedRequiredBits(level) ==
    CASE level = 1 -> 36  [] level = 2 -> 84  [] level = 3 -> 15
      [] level = 4 -> 20  [] level = 5 -> 52  [] level = 6 -> 64
      [] level = 11 -> 32 [] level = 254 -> 32

FixedBlock(level, payload) ==
    [variant |-> "Fixed", level |-> level, payload |-> payload]

\* a fixed-length codec's parse: reads the level's required bits
FixedParse(level, r) ==
    LET n == FixedRequiredBits(level)
    IN  [block |-> FixedBlock(level,
                      IF CanRead(r, n) THEN SubSeq(r.bits, r.pos + 1, r.pos + n)
                      ELSE Zeros(n)),
         r |-> Skip(r, n)]

ReservedBlock(level, len, data) ==
    [variant |-> "Reserved", level |-> level, ext_block_length |-> len,
     data |-> data]

\* ReservedExtMetadataBlock::parse: keeps the declared length of raw bytes
ReservedParse(ext_block_length, level, r) ==
    LET n == 8 * ext_block_length
    IN  [block |-> ReservedBlock(level, ext_block_length,
                      IF CanRead(r, n) THEN SubSeq(r.bits, r.pos + 1, r.pos + n)
                      ELSE Zeros(n)),
         r |-> Skip(r, n)]

(***************************************************************************)
(* ExtMetadataBlock: dispatch on the variant (blocks/mod.rs).              *)
(***************************************************************************)
Level(b) ==
    CASE b.variant = "Level8" -> 8
      [] b.variant = "Level9" -> 9
      [] b.variant = "Level10" -> 10
      [] OTHER -> b.level

RequiredBits(b) ==
    CASE b.variant = "Level8" -> Level8RequiredBits(b)
      [] b.variant = "Level9" -> Level9RequiredBits(b)
      [] b.variant = "Level10" -> Level10RequiredBits(b)
      [] b.variant = "Fixed" -> FixedRequiredBits(b.level)
      [] OTHER -> 8 * b.ext_block_length

LengthBytes(b) ==
    CASE b.variant = "Level8" -> Level8BytesSize(b)
      [] b.variant = "Level9" -> Level9BytesSize(b)
      [] b.variant = "Level10" -> Level10BytesSize(b)
      [] b.variant = "Fixed" -> FixedBytesSize(b.level)
      [] OTHER -> b.ext_block_length

\* bits_size: bytes_size * 8
LengthBits(b) == LengthBytes(b) * 8

PossibleRequiredBits(b) ==
    CASE b.variant = "Level8" -> Level8PossibleRequiredBits
      [] b.variant = "Level9" -> <<8, 136>>
      [] b.variant = "Level10" -> <<40, 168>>
      [] OTHER -> <<RequiredBits(b)>>

PossibleLengthBytes(b) ==
    CASE b.variant = "Level8" -> DefaultPossibleBytesSize(Level8PossibleRequiredBits)
      [] b.variant = "Level9" -> <<1, 17>>
      [] b.variant = "Level10" -> <<5, 21>>
      [] OTHER -> <<LengthBytes(b)>>

\* faulty variant of PossibleLengthBits: the required bits, not rounded up to bytes
PossibleLengthBits_Unrounded(b) == PossibleRequiredBits(b)

PossibleLengthBits(b) ==
    CASE b.variant = "Level9" -> <<8, 136>>
      [] b.variant = "Level10" -> <<40, 168>>
      [] OTHER -> [i \in 1..Len(PossibleLengthBytes(b)) |->
                      PossibleLengthBytes(b)[i] * 8]

\* sort_key: (level, 0) unless the level overrides it
SortKey(b) ==
    CASE b.variant = "Level8" -> <<8, b.target_display_index>>
      [] b.variant = "Fixed" /\ b.level = 2 -> <<2, BitsVal(b.payload, 0, 12)>>
      [] OTHER -> <<Level(b), 0>>

\* ExtMetadataBlock::write: [ok, bits]
BlockWrite(b) ==
    CASE b.variant = "Level8" -> Level8Write(b)
      [] b.variant = "Level9" -> Level9Write(b)
      [] b.variant = "Level10" -> Level10Write(b)
      [] b.variant = "Fixed" -> [ok |-> TRUE, bits |-> b.payload]
      [] OTHER -> [ok |-> TRUE, bits |-> b.data]

(***************************************************************************)
(* WithExtMetadataBlocks: the envelope (extension_metadata/mod.rs).        *)
(* An envelope is [version, blocks, num_ext_blocks].                       *)
(***************************************************************************)
DefaultMeta(v) == [version |-> v, blocks |-> <<>>, num_ext_blocks |-> 0]

\* the order of (u8, u16) keys
KeyLeq(a, b) == a[1] < b[1] \/ (a[1] = b[1] /\ a[2] <= b[2])

RECURSIVE InsertByKey_BeforeEqual(_, _)
\* faulty variant of InsertByKey: b goes before the blocks with an equal key
InsertByKey_BeforeEqual(sorted, b) ==
    IF sorted = <<>> THEN <<b>>
    ELSE IF KeyLeq(SortKey(Head(sorted)), SortKey(b))
            /\ SortKey(Head(sorted)) # SortKey(b)
         THEN <<Head(sorted)>> \o InsertByKey_BeforeEqual(Tail(sorted), b)
         ELSE <<b>> \o sorted

RECURSIVE InsertByKey(_, _)
\* b goes after every block whose key is not greater (stable)
InsertByKey(sorted, b) ==
    IF sorted = <<>> THEN <<b>>
    ELSE IF KeyLeq(SortKey(Head(sorted)), SortKey(b))
         THEN <<Head(sorted)>> \o InsertByKey(Tail(sorted), b)
         ELSE <<b>> \o sorted

RECURSIVE SortFrom(_, _)
SortFrom(blocks, sorted) ==
    IF blocks = <<>> THEN sorted
    ELSE SortFrom(Tail(blocks), InsertByKey(sorted, Head(blocks)))

RECURSIVE DedupByKey(_)
DedupByKey(sorted) ==
    IF Len(sorted) < 2 THEN sorted
    ELSE IF SortKey(sorted[1]) = SortKey(sorted[2])
         THEN DedupByKey(<<sorted[1]>> \o Tail(Tail(sorted)))
         ELSE <<sorted[1]>> \o DedupByKey(Tail(sorted))

\* faulty variant of SortBlocks: blocks that share a sort key collapse into the first
SortBlocks_Dedup(blocks) == DedupByKey(SortFrom(blocks, <<>>))

\* sort_blocks: sort_by_key, a stable sort by sort_key
SortBlocks(blocks) == SortFrom(blocks, <<>>)

\* faulty variant of UpdateExtensionBlockInfo: the count is left as it was
UpdateExtensionBlockInfo_NoCount(meta) ==
    [meta EXCEPT !.blocks = SortBlocks(meta.blocks)]

UpdateExtensionBlockInfo(meta) ==
    [meta EXCEPT !.num_ext_blocks = Len(meta.blocks),
                 !.blocks = SortBlocks(meta.blocks)]

\* faulty variant of AddBlockOp: the block is pushed before the level is checked
AddBlockOp_PushFirst(meta, b) ==
    [ok |-> Level(b) \in ALLOWED_BLOCK_LEVELS(meta.version),
     meta |-> UpdateExtensionBlockInfo(
                 [meta EXCEPT !.blocks = Append(meta.blocks, b)])]

\* add_block: [ok, meta]
AddBlockOp(meta, b) ==
    IF Level(b) \notin ALLOWED_BLOCK_LEVELS(meta.version)
    THEN [ok |-> FALSE, meta |-> meta]
    ELSE [ok |-> TRUE,
          meta |-> UpdateExtensionBlockInfo(
                      [meta EXCEPT !.blocks = Append(meta.blocks, b)])]

\* faulty variant of Retain: the predicate is inverted
Retain_Inverted(blocks, level) ==
    SelectSeq(blocks, LAMBDA b : Level(b) = level)

Retain(blocks, level) ==
    SelectSeq(blocks, LAMBDA b : Level(b) # level)

RemoveLevelOp(meta, level) ==
    UpdateExtensionBlockInfo([meta EXCEPT !.blocks = Retain(meta.blocks, level)])

RECURSIVE WriteBlocks(_, _, _)
\* the loop of write over blocks[i..]: [ok, bits, recs]; a record of recs
\* gives, for one block, the declared length and the writer's length after
\* the header, after the payload and after the padding
WriteBlocks(blocks, bits, recs) ==
    IF blocks = <<>> THEN [ok |-> TRUE, bits |-> bits, recs |-> recs]
    ELSE LET b == Head(blocks)
             remaining_bits == LengthBits(b) - RequiredBits(b)
             hdr == bits \o WriteUe(LengthBytes(b)) \o WriteN(Level(b), 8)
             w == BlockWrite(b)
         IN  IF ~w.ok THEN [ok |-> FALSE, bits |-> hdr, recs |-> recs]
             ELSE WriteBlocks(Tail(blocks),
                     hdr \o w.bits \o Zeros(remaining_bits),
                     Append(recs, [length_bytes |-> LengthBytes(b),
                                   level |-> Level(b),
                                   start |-> Len(hdr),
                                   payload_end |-> Len(hdr) + Len(w.bits),
                                   end |-> Len(hdr) + Len(w.bits)
                                           + remaining_bits]))

\* WithExtMetadataBlocks::write into an empty writer: [ok, bits, recs]
EnvelopeWrite(meta) ==
    LET count == WriteUe(meta.num_ext_blocks)
    IN  WriteBlocks(meta.blocks, count \o AlignZeros(Len(count)), <<>>)

\* faulty variant of ValidateCorrectDmData: every level passes
ValidateCorrectDmData_Any(v, b) == TRUE

\* validate_correct_dm_data
ValidateCorrectDmData(v, b) == Level(b) \in ALLOWED_BLOCK_LEVELS(v)

\* faulty variant of LengthIsValid: only variable-length levels are checked
LengthIsValid_VariableOnly(v, b, expected_length) ==
    IF Level(b) \in VARIABLE_LENGTH_BLOCK_LEVELS(v)
    THEN Contains(PossibleLengthBytes(b), expected_length)
    ELSE TRUE

\* the length check of validate_and_read_remaining
LengthIsValid(v, b, expected_length) ==
    IF Level(b) \in VARIABLE_LENGTH_BLOCK_LEVELS(v)
    THEN Contains(PossibleLengthBytes(b), expected_length)
    ELSE expected_length = LengthBytes(b)

\* ext_block_use_bits of validate_and_read_remaining
ExtBlockUseBits(v, b, expected_length) ==
    IF Level(b) \in VARIABLE_LENGTH_BLOCK_LEVELS(v)
    THEN IF Contains(PossibleLengthBytes(b), expected_length)
         THEN LET index == Position(PossibleLengthBytes(b), expected_length)
              IN  PossibleLengthBits(b)[index] - PossibleRequiredBits(b)[index]
         ELSE 0
    ELSE LengthBits(b) - RequiredBits(b)

RECURSIVE ReadZeroBits(_, _)
\* n times ensure!(!reader.get()?): [ok, r]
ReadZeroBits(r, n) ==
    IF n = 0 THEN [ok |-> TRUE, r |-> r]
    ELSE IF ~CanRead(r, 1) THEN [ok |-> FALSE, r |-> Skip(r, 1)]
    ELSE IF GetN(r, 1) # 0 THEN [ok |-> FALSE, r |-> Skip(r, 1)]
    ELSE ReadZeroBits(Skip(r, 1), n - 1)

\* the result of the padding loop of validate_and_read_remaining
PaddingResult(z) ==
    [ok |-> z.ok, err |-> IF z.ok THEN "" ELSE "padding", r |-> z.r]

\* validate_and_read_remaining: [ok, err, r]
ValidateAndReadRemaining(v, b, r, expected_length) ==
    IF ~LengthIsValid(v, b, expected_length)
    THEN [ok |-> FALSE, err |-> "length", r |-> r]
    ELSE IF ~ValidateCorrectDmData(v, b)
    THEN [ok |-> FALSE, err |-> "level", r |-> r]
    ELSE PaddingResult(ReadZeroBits(r, ExtBlockUseBits(v, b, expected_length)))

\* the codec a level selects: [block, r]
CodecParse(ext_block_length, ext_block_level, r) ==
    CASE ext_block_level = 8 -> Level8Parse(ext_block_length, r)
      [] ext_block_level = 9 -> Level9Parse(ext_block_length, r)
      [] ext_block_level = 10 -> Level10Parse(ext_block_length, r)
      [] ext_block_level \in FixedLevels -> FixedParse(ext_block_level, r)
      [] OTHER -> ReservedParse(ext_block_length, ext_block_level, r)

\* parse_block, last step: push the validated block. rec gives the declared
\* length and level and the reader's position after the header, after the
\* codec's parse and after the padding
ParseBlockPush(meta, ext_block_length, ext_block_level, r1, c, val) ==
    IF ~c.r.ok
    THEN [ok |-> FALSE, err |-> "truncated", meta |-> meta, r |-> c.r]
    ELSE IF ~val.ok
    THEN [ok |-> FALSE, err |-> val.err, meta |-> meta, r |-> val.r]
    ELSE [ok |-> TRUE, err |-> "",
          meta |-> [meta EXCEPT !.blocks = Append(meta.blocks, c.block)],
          r |-> val.r,
          rec |-> [length_bytes |-> ext_block_length, level |-> ext_block_level,
                   start |-> r1.pos, payload_end |-> c.r.pos, end |-> val.r.pos]]

\* parse_block, third step: validate_and_read_remaining on the parsed block
ParseBlockValidate(meta, ext_block_length, ext_block_level, r1, c) ==
    ParseBlockPush(meta, ext_block_length, ext_block_level, r1, c,
        ValidateAndReadRemaining(meta.version, c.block, c.r, ext_block_length))

\* parse_block, second step: the level's codec parses the payload
ParseBlockCodec(meta, ext_block_length, ext_block_level, r1) ==
    ParseBlockValidate(meta, ext_block_length, ext_block_level, r1,
        CodecParse(ext_block_length, ext_block_level, r1))

\* parse_block, first step: ext_block_length as ue(v), ext_block_level as u8
ParseBlockHeader(meta, ue) ==
    IF ~ue.ok \/ ~CanRead(ue.r, 8)
    THEN [ok |-> FALSE, err |-> "truncated", meta |-> meta, r |-> ue.r]
    ELSE ParseBlockCodec(meta, ue.value, GetN(ue.r, 8), Skip(ue.r, 8))

\* parse_block: [ok, err, meta, r, rec]
ParseBlock(meta, r) == ParseBlockHeader(meta, GetUe(r))

RECURSIVE ParseBlocks(_, _, _, _)
RECURSIVE ParseBlocksStep(_, _, _)
\* for _ in 0..num_ext_blocks { meta.parse_block(reader)? }
ParseBlocks(meta, r, n, recs) ==
    IF n = 0 THEN [ok |-> TRUE, err |-> "", meta |-> meta, r |-> r, recs |-> recs]
    ELSE ParseBlocksStep(ParseBlock(meta, r), n, recs)

\* the ? of one round of the loop
ParseBlocksStep(p, n, recs) ==
    IF ~p.ok THEN [ok |-> FALSE, err |-> p.err]
    ELSE ParseBlocks(p.meta, p.r, n - 1, Append(recs, p.rec))

\* Err(..) of DmData::parse: no value is returned
ParseFailed(v, err) ==
    [ok |-> FALSE, err |-> err, meta |-> DefaultMeta(v), recs |-> <<>>]

\* the return of DmData::parse
ParseResult(v, p) == IF ~p.ok THEN ParseFailed(v, p.err) ELSE p

\* DmData::parse after the dm_alignment_zero_bit loop
ParseAligned(v, num_ext_blocks, z) ==
    IF ~z.ok THEN ParseFailed(v, "alignment")
    ELSE ParseResult(v,
            ParseBlocks([DefaultMeta(v) EXCEPT !.num_ext_blocks = num_ext_blocks],
                        z.r, num_ext_blocks, <<>>))

\* DmData::parse after num_ext_blocks = reader.get_ue()?
ParseCount(v, ue) ==
    IF ~ue.ok THEN ParseFailed(v, "truncated")
    ELSE ParseAligned(v, ue.value, ReadZeroBits(ue.r, (8 - (ue.r.pos % 8)) % 8))

\* DmData::parse: [ok, err, meta, recs]; meta is the value of Ok(Some(meta))
\* and stands for nothing when ok is FALSE
DmDataParse(v, bits) == ParseCount(v, GetUe(Reader(bits)))

(***************************************************************************)
(* ST2094_10DmData::parse (st2094_10/itu_t35/dm_data.rs): app_identifier   *)
(* and app_version as ue(v), metadata_refresh_flag as one bit, then a      *)
(* CM v2.9 envelope when the flag is set. The result is [ok, err,          *)
(* app_identifier, app_version, metadata_refresh_flag, has_dm, meta, recs, *)
(* pos]: has_dm and meta are dm_data, pos is the reader's position at the  *)
(* return.                                                                 *)
(***************************************************************************)
\* Err(..): no value is returned
St2094Failed(err) ==
    [ok |-> FALSE, err |-> err, app_identifier |-> 0, app_version |-> 0,
     metadata_refresh_flag |-> FALSE, has_dm |-> FALSE,
     meta |-> DefaultMeta("V29"), recs |-> <<>>, pos |-> 0]

\* Ok(UserDataTypeStruct::DMData(meta)) with dm_data None
St2094NoDm(app_identifier, app_version, r) ==
    [ok |-> TRUE, err |-> "", app_identifier |-> app_identifier,
     app_version |-> app_version, metadata_refresh_flag |-> FALSE,
     has_dm |-> FALSE, meta |-> DefaultMeta("V29"), recs |-> <<>>, pos |-> r.pos]

\* meta.dm_data = DmData::parse::<CmV29DmData>(reader)?
St2094Inner(app_identifier, app_version, p) ==
    IF ~p.ok THEN St2094Failed(p.err)
    ELSE [ok |-> TRUE, err |-> "", app_identifier |-> app_identifier,
          app_version |-> app_version, metadata_refresh_flag |-> TRUE,
          has_dm |-> TRUE, meta |-> p.meta, recs |-> p.recs, pos |-> p.r.pos]

\* faulty variant of St2094Body: the envelope is parsed whatever the flag
St2094Body_Always(app_identifier, app_version, flag, r) ==
    St2094Inner(app_identifier, app_version, ParseCount("V29", GetUe(r)))

\* if meta.metadata_refresh_flag { .. }
St2094Body(app_identifier, app_version, flag, r) ==
    IF flag
    THEN St2094Inner(app_identifier, app_version, ParseCount("V29", GetUe(r)))
    ELSE St2094NoDm(app_identifier, app_version, r)

\* metadata_refresh_flag: reader.get()?
St2094Flag(app_identifier, u2) ==
    IF ~u2.ok \/ ~CanRead(u2.r, 1) THEN St2094Failed("truncated")
    ELSE St2094Body(app_identifier, u2.value, GetN(u2.r, 1) = 1, Skip(u2.r, 1))

\* app_version: reader.get_ue()?
St2094AppVersion(u1) ==
    IF ~u1.ok THEN St2094Failed("truncated")
    ELSE St2094Flag(u1.value, GetUe(u1.r))

ST2094_10DmDataParse(bits) == St2094AppVersion(GetUe(Reader(bits)))

(***************************************************************************)
(* CmXmlParser: the Level 5 offsets derived from aspect ratios             *)
(* (xml/parser.rs). An f32 ratio is kept as a fraction <<n, d>> of         *)
(* positive integers and the f32 arithmetic is carried out exactly.        *)
(***************************************************************************)
\* 1 / f32::EPSILON (EPSILON is 2^-23)
F32_EPSILON_INV == 8388608

\* ExtMetadataBlockLevel5 as its four offsets
Level5FromOffsets(left, right, top, bottom) ==
    [active_area_left_offset |-> left, active_area_right_offset |-> right,
     active_area_top_offset |-> top, active_area_bottom_offset |-> bottom]

\* ExtMetadataBlockLevel5::default()
Level5Default == Level5FromOffsets(0, 0, 0, 0)

\* (canvas_ar - image_ar).abs() < f32::EPSILON
RatiosWithinEpsilon(canvas_ar, image_ar) ==
    LET cross == canvas_ar[1] * image_ar[2] - image_ar[1] * canvas_ar[2]
    IN  (IF cross < 0 THEN -cross ELSE cross)
          <= (canvas_ar[2] * image_ar[2] - 1) \div F32_EPSILON_INV

\* image_ar > canvas_ar
RatioGreater(image_ar, canvas_ar) ==
    image_ar[1] * canvas_ar[2] > canvas_ar[1] * image_ar[2]

\* faulty variant of RoundF32: the fraction is cut off
RoundF32_Trunc(n, d) == n \div d

\* f32::round of n / d, n >= 0 and d > 0: half goes away from zero
RoundF32(n, d) == (2 * n + d) \div (2 * d)

\* `as u16` of a whole f32: the cast saturates
AsU16(x) == IF x < 0 THEN 0 ELSE IF x > 65535 THEN 65535 ELSE x

\* Err(..) of calculate_level5_metadata
Level5Failed(err) ==
    [ok |-> FALSE, err |-> err, image_size |-> 0, diff |-> 0,
     level5 |-> Level5Default]

\* faulty variant of Level5Letterbox: the odd line goes to the top
Level5Letterbox_OddOnTop(ch, image_h) ==
    [ok |-> TRUE, err |-> "", image_size |-> image_h, diff |-> ch - image_h,
     level5 |-> Level5FromOffsets(0, 0,
                   AsU16((ch - image_h) - ((ch - image_h) \div 2)),
                   AsU16((ch - image_h) \div 2))]

\* the letterbox arm: offsets at the top and the bottom
Level5Letterbox(ch, image_h) ==
    [ok |-> TRUE, err |-> "", image_size |-> image_h, diff |-> ch - image_h,
     level5 |-> Level5FromOffsets(0, 0, AsU16((ch - image_h) \div 2),
                   AsU16((ch - image_h) - ((ch - image_h) \div 2)))]

\* the pillarbox arm: offsets at the left and the right
Level5Pillarbox(cw, image_w) ==
    [ok |-> TRUE, err |-> "", image_size |-> image_w, diff |-> cw - image_w,
     level5 |-> Level5FromOffsets(AsU16((cw - image_w) \div 2),
                   AsU16((cw - image_w) - ((cw - image_w) \div 2)), 0, 0)]

\* calculate_level5_metadata: [ok, err, image_size, diff, level5]
CalculateLevel5Metadata(opts, canvas_ar, image_ar) ==
    IF opts.canvas_width = None
    THEN Level5Failed("Missing canvas width to calculate L5")
    ELSE IF opts.canvas_height = None
    THEN Level5Failed("Missing canvas height to calculate L5")
    ELSE IF RatiosWithinEpsilon(canvas_ar, image_ar)
    THEN [ok |-> TRUE, err |-> "", image_size |-> 0, diff |-> 0,
          level5 |-> Level5Default]
    ELSE IF RatioGreater(image_ar, canvas_ar)
    THEN Level5Letterbox(opts.canvas_height,
            RoundF32(opts.canvas_height * canvas_ar[1] * image_ar[2],
                     canvas_ar[2] * image_ar[1]))
    ELSE Level5Pillarbox(opts.canvas_width,
            RoundF32(opts.canvas_width * image_ar[1] * canvas_ar[2],
                     image_ar[2] * canvas_ar[1]))

\* .ok().unwrap_or_default() of a calculate_level5_metadata result
OkUnwrapOrDefault(c) == IF c.ok THEN c.level5 ELSE Level5Default

\* the text of a ratio element that is missing or is no f32
NoRatio == <<0, 0>>

\* parse_global_level5 with config.level5 as it was: [ok, err, asked, calc,
\* level5]; asked says that calculate_level5_metadata was called, calc is
\* what it returned, level5 is config.level5 afterwards
ParseGlobalLevel5Op(level5, opts, canvas_ar, image_ar) ==
    IF canvas_ar # NoRatio /\ image_ar # NoRatio
    THEN [ok |-> TRUE, err |-> "", asked |-> TRUE,
          calc |-> CalculateLevel5Metadata(opts, canvas_ar, image_ar),
          level5 |-> OkUnwrapOrDefault(
                        CalculateLevel5Metadata(opts, canvas_ar, image_ar))]
    ELSE [ok |-> TRUE, err |-> "", asked |-> FALSE,
          calc |-> Level5Failed(""), level5 |-> level5]

\* parse_level5_trim of the AspectRatios text split into ratios: [ok, err,
\* asked, calc, level5]; an element that is no f32 panics in unwrap()
ParseLevel5TrimOp(opts, ratios) ==
    IF Len(ratios) # 2
    THEN [ok |-> FALSE, err |-> "invalid L5 trim: should be 2 values",
          asked |-> FALSE, calc |-> Level5Failed(""), level5 |-> Level5Default]
    ELSE IF ratios[1] = NoRatio \/ ratios[2] = NoRatio
    THEN [ok |-> FALSE, err |-> "panic", asked |-> FALSE,
          calc |-> Level5Failed(""), level5 |-> Level5Default]
    ELSE [ok |-> TRUE, err |-> "", asked |-> TRUE,
          calc |-> CalculateLevel5Metadata(opts, ratios[1], ratios[2]),
          level5 |-> OkUnwrapOrDefault(
                        CalculateLevel5Metadata(opts, ratios[1], ratios[2]))]

(***************************************************************************)
(* DoviProcessor (dovi/general_read_write.rs): write_nals routes the NAL   *)
(* units of a stream to the writers that are configured and collects the   *)
(* RPU NALs; flush_writer reorders the collected RPUs and writes them.     *)
(* A NAL is [nal_type, decoded_frame_index, st2094_40, id]: st2094_40 is   *)
(* what is_st2094_40_sei says of its bytes, id stands for its bytes. A     *)
(* writer's file is the sequence of the pieces written, <<piece, id>>.     *)
(***************************************************************************)
NAL_SEI_PREFIX == 39
NAL_UNSPEC62 == 62
NAL_UNSPEC63 == 63

\* DoviProcessor::new; writers says which of the four writers are Some
NewDoviProcessor(options, writers) ==
    [status |-> "running", options |-> options, writers |-> writers,
     rpu_nals |-> <<>>, previous_rpu_index |-> 0,
     bl_out |-> <<>>, el_out |-> <<>>, sl_out |-> <<>>, rpu_out |-> <<>>,
     nals |-> <<>>]

\* no processor
NoProcessor ==
    [NewDoviProcessor([drop_hdr10plus |-> FALSE, discard_el |-> FALSE,
                       convert |-> FALSE],
                      [bl |-> FALSE, el |-> FALSE, rpu |-> FALSE, sl |-> FALSE])
       EXCEPT !.status = "none"]

\* the iteration ends with `continue` or at the end of the loop body
Continue(p, nal) == [p EXCEPT !.nals = Append(p.nals, nal)]

\* the `?` of a failed convert_encoded_from_opts leaves write_nals
ConvertFailed(p, nal) ==
    [p EXCEPT !.nals = Append(p.nals, nal), !.status = "failed"]

\* rpu_nals.push(RpuNal { decoded_index: rpu_nals.len(), .. })
PushRpuNal(p, piece, nal) ==
    [p EXCEPT !.rpu_nals =
        Append(p.rpu_nals, [decoded_index |-> Len(p.rpu_nals),
                            presentation_number |-> 0,
                            data |-> <<piece, nal.id>>])]

\* the single-layer arm (lines 148-169)
WriteSingleLayer(p, nal, conv_ok) ==
    IF nal.nal_type = NAL_UNSPEC63 /\ p.options.discard_el
    THEN Continue(p, nal)
    ELSE IF nal.nal_type = NAL_UNSPEC62 /\ p.options.convert
    THEN IF conv_ok
         THEN Continue([p EXCEPT !.sl_out = p.sl_out \o <<<<"header", nal.id>>,
                                              <<"converted", nal.id>>>>], nal)
         ELSE ConvertFailed([p EXCEPT !.sl_out =
                                Append(p.sl_out, <<"header", nal.id>>)], nal)
    ELSE Continue([p EXCEPT !.sl_out = p.sl_out \o <<<<"header", nal.id>>,
                                                     <<"raw", nal.id>>>>], nal)

\* NAL_UNSPEC63 (lines 172-177)
WriteEl(p, nal) ==
    IF p.writers.el
    THEN Continue([p EXCEPT !.el_out = p.el_out \o <<<<"header", nal.id>>,
                                                     <<"from_2", nal.id>>>>], nal)
    ELSE Continue(p, nal)

\* the RPU data after the header went to the EL writer (lines 185-214)
WriteRpuData(p, nal, conv_ok) ==
    IF p.options.convert
    THEN IF ~conv_ok THEN ConvertFailed(p, nal)
         ELSE IF p.writers.rpu
         THEN Continue(PushRpuNal(p, "converted_from_2", nal), nal)
         ELSE IF p.writers.el
         THEN Continue([p EXCEPT !.el_out =
                           Append(p.el_out, <<"converted", nal.id>>)], nal)
         ELSE Continue(p, nal)
    ELSE IF p.writers.rpu
    THEN Continue(PushRpuNal(p, "from_2", nal), nal)
    ELSE IF p.writers.el
    THEN Continue([p EXCEPT !.el_out = Append(p.el_out, <<"raw", nal.id>>)], nal)
    ELSE Continue(p, nal)

\* NAL_UNSPEC62 (lines 178-215)
WriteRpu(p, nal, conv_ok) ==
    WriteRpuData(
        [p EXCEPT !.previous_rpu_index = nal.decoded_frame_index,
                  !.el_out = IF p.writers.el
                             THEN Append(p.el_out, <<"header", nal.id>>)
                             ELSE p.el_out],
        nal, conv_ok)

\* any other NAL (lines 216-221)
WriteBl(p, nal) ==
    IF p.writers.bl
    THEN Continue([p EXCEPT !.bl_out = p.bl_out \o <<<<"header", nal.id>>,
                                                     <<"raw", nal.id>>>>], nal)
    ELSE Continue(p, nal)

\* one iteration of the loop of write_nals; conv_ok is the outcome of
\* convert_encoded_from_opts, should the iteration call it
WriteNalOp(p, nal, conv_ok) ==
    IF p.options.drop_hdr10plus /\ nal.nal_type = NAL_SEI_PREFIX
       /\ nal.st2094_40
    THEN Continue(p, nal)
    ELSE IF p.previous_rpu_index > 0 /\ nal.nal_type = NAL_UNSPEC62
            /\ nal.decoded_frame_index = p.previous_rpu_index
    THEN Continue(p, nal)
    ELSE IF p.writers.sl THEN WriteSingleLayer(p, nal, conv_ok)
    ELSE IF nal.nal_type = NAL_UNSPEC63 THEN WriteEl(p, nal)
    ELSE IF nal.nal_type = NAL_UNSPEC62 THEN WriteRpu(p, nal, conv_ok)
    ELSE WriteBl(p, nal)

\* frames.iter().position(|f| rpu.decoded_index == f.decoded_number): the
\* first index (from 1) of a matching frame, 0 for None
MatchingIndex(frames, rpu) ==
    IF \E i \in 1..Len(frames) : frames[i].decoded_number = rpu.decoded_index
    THEN CHOOSE i \in 1..Len(frames) :
            /\ frames[i].decoded_number = rpu.decoded_index
            /\ \A j \in 1..(i - 1) : frames[j].decoded_number # rpu.decoded_index
    ELSE 0

\* the key of sort_by_cached_key
RpuSortKey(frames, rpu) == frames[MatchingIndex(frames, rpu)].presentation_number

RECURSIVE InsertRpu(_, _, _)
\* rpu goes after every RPU whose key is not greater (the sort is stable)
InsertRpu(frames, sorted, rpu) ==
    IF sorted = <<>> THEN <<rpu>>
    ELSE IF RpuSortKey(frames, Head(sorted)) <= RpuSortKey(frames, rpu)
         THEN <<Head(sorted)>> \o InsertRpu(frames, Tail(sorted), rpu)
         ELSE <<rpu>> \o sorted

RECURSIVE SortRpus(_, _, _)
SortRpus(frames, rpus, sorted) ==
    IF rpus = <<>> THEN sorted
    ELSE SortRpus(frames, Tail(rpus), InsertRpu(frames, sorted, Head(rpus)))

\* rpu.presentation_number = idx for every (idx, rpu)
SetPresentationNumbers(rpus) ==
    [i \in 1..Len(rpus) |-> [rpus[i] EXCEPT !.presentation_number = i - 1]]

RECURSIVE WriteRpus(_)
\* OUT_NAL_HEADER and the data of every RPU
WriteRpus(rpus) ==
    IF rpus = <<>> THEN <<>>
    ELSE <<<<"header", Head(rpus).data[2]>>, Head(rpus).data>>
         \o WriteRpus(Tail(rpus))

\* the RPU writer's part of flush_writer, after the sort
FlushSorted(p, sorted) ==
    [p EXCEPT !.status = "flushed", !.rpu_nals = sorted,
              !.rpu_out = WriteRpus(sorted)]

\* flush_writer with parser.ordered_frames() = frames
FlushWriterOp(p, frames) ==
    IF ~p.writers.rpu THEN [p EXCEPT !.status = "flushed"]
    ELSE IF frames = <<>> THEN [p EXCEPT !.status = "failed"]
    ELSE IF \E i \in 1..Len(p.rpu_nals) : MatchingIndex(frames, p.rpu_nals[i]) = 0
    THEN [p EXCEPT !.status = "panicked"]
    ELSE FlushSorted(p, SetPresentationNumbers(SortRpus(frames, p.rpu_nals, <<>>)))

(***************************************************************************)
(* Generator (rpu/generate.rs, spec 4.5): GenerateConfig -> one DmData per *)
(* frame. A config is [length, source_min_pq, source_max_pq, level5,       *)
(* level6, default_metadata_blocks, shots, cm_version], a shot [start,     *)
(* duration, metadata_blocks, frame_edits], a frame edit [edit_offset,     *)
(* metadata_blocks]. A block of a config or of a frame is [level,          *)
(* target_display_index, body]; a generated frame is [scene_refresh_flag,  *)
(* source_min_pq, source_max_pq, blocks].                                  *)
(***************************************************************************)
GenBlock(level, target_display_index, body) ==
    [level |-> level, target_display_index |-> target_display_index,
     body |-> body]

GenLevel8(b) == GenBlock(8, b.target_display_index, b)

\* the fields of a Level 2 block that are trims
Level2Trims(slope, offset, power, chroma_weight, saturation_gain, ms_weight) ==
    [trim_slope |-> slope, trim_offset |-> offset, trim_power |-> power,
     trim_chroma_weight |-> chroma_weight,
     trim_saturation_gain |-> saturation_gain, ms_weight |-> ms_weight]

GenLevel2(target_display_index, trims) ==
    GenBlock(2, target_display_index, trims)

GenLevel5(level5) == GenBlock(5, 0, level5)

GenLevel6(level6) == GenBlock(6, 0, level6)

\* the Level 11 and Level 254 that a CM v4.0 frame gets when it has none
Level11Default == GenBlock(11, 0, "default")

Level254Default == GenBlock(254, 0, [dm_mode |-> 0, dm_version_index |-> 2])

GenKey(b) == <<b.level, b.target_display_index>>

HasKey(blocks, key) == \E i \in 1..Len(blocks) : GenKey(blocks[i]) = key

HasLevel(blocks, level) == \E i \in 1..Len(blocks) : blocks[i].level = level

\* b replaces the block of its (level, target_display_index), or is added
ReplaceOrInsert(blocks, b) ==
    IF HasKey(blocks, GenKey(b))
    THEN [i \in 1..Len(blocks) |->
            IF GenKey(blocks[i]) = GenKey(b) THEN b ELSE blocks[i]]
    ELSE Append(blocks, b)

RECURSIVE Overlay(_, _)
\* step 2: the blocks of over, one after the other, laid over base
Overlay(base, over) ==
    IF over = <<>> THEN base
    ELSE Overlay(ReplaceOrInsert(base, Head(over)), Tail(over))

\* step 1: the first shot whose [start, start + duration) contains f
LocateShot(shots, f) ==
    shots[CHOOSE i \in 1..Len(shots) :
            /\ shots[i].start <= f /\ f < shots[i].start + shots[i].duration
            /\ \A j \in 1..(i - 1) :
                  ~(shots[j].start <= f /\ f < shots[j].start + shots[j].duration)]

RECURSIVE OverlayEdits(_, _, _)
\* step 2, last item: every frame edit whose edit_offset is f - shot.start
OverlayEdits(blocks, edits, offset) ==
    IF edits = <<>> THEN blocks
    ELSE OverlayEdits(IF Head(edits).edit_offset = offset
                      THEN Overlay(blocks, Head(edits).metadata_blocks)
                      ELSE blocks,
                      Tail(edits), offset)

\* step 2: defaults, then the shot's blocks, then the frame edit's
ComposeBlocks(config, shot, f) ==
    OverlayEdits(Overlay(Overlay(<<>>, config.default_metadata_blocks),
                         shot.metadata_blocks),
                 shot.frame_edits, f - shot.start)

\* step 3: Level 5 and Level 6 of the config; for CM v4.0 a Level 254 and a
\* Level 11 when there is none
EnsureConfigLevels(config, blocks) ==
    LET with56 == ReplaceOrInsert(ReplaceOrInsert(blocks,
                                                  GenLevel5(config.level5)),
                                  GenLevel6(config.level6))
        with254 == IF HasLevel(with56, 254) THEN with56
                   ELSE Append(with56, Level254Default)
    IN  IF config.cm_version # "V40" THEN with56
        ELSE IF HasLevel(with254, 11) THEN with254
        ELSE Append(with254, Level11Default)

\* the Level 2 of a Level 8: its target and its trim fields
Level2FromLevel8(l8) ==
    GenLevel2(l8.target_display_index,
              Level2Trims(l8.body.trim_slope, l8.body.trim_offset,
                          l8.body.trim_power, l8.body.trim_chroma_weight,
                          l8.body.trim_saturation_gain, l8.body.ms_weight))

RECURSIVE DeriveLevel2s_Always(_, _)
\* faulty variant of DeriveLevel2s: an explicit Level 2 does not stop the derivation
DeriveLevel2s_Always(blocks, l8s) ==
    IF l8s = <<>> THEN blocks
    ELSE DeriveLevel2s_Always(Append(blocks, Level2FromLevel8(Head(l8s))),
                              Tail(l8s))

RECURSIVE DeriveLevel2s(_, _)
\* step 4: a Level 2 for every Level 8 of l8s whose target has none
DeriveLevel2s(blocks, l8s) ==
    IF l8s = <<>> THEN blocks
    ELSE DeriveLevel2s(IF HasKey(blocks, <<2, Head(l8s).target_display_index>>)
                       THEN blocks
                       ELSE Append(blocks, Level2FromLevel8(Head(l8s))),
                       Tail(l8s))

Level8sOf(blocks) == SelectSeq(blocks, LAMBDA b : b.level = 8)

\* step 4 is for CM v4.0 only
WithDerivedLevel2s(config, blocks) ==
    IF config.cm_version = "V40"
    THEN DeriveLevel2s(blocks, Level8sOf(blocks))
    ELSE blocks

GenKeyLeq(a, b) == a[1] < b[1] \/ (a[1] = b[1] /\ a[2] <= b[2])

RECURSIVE GenInsert(_, _)
GenInsert(sorted, b) ==
    IF sorted = <<>> THEN <<b>>
    ELSE IF GenKeyLeq(GenKey(Head(sorted)), GenKey(b))
         THEN <<Head(sorted)>> \o GenInsert(Tail(sorted), b)
         ELSE <<b>> \o sorted

RECURSIVE GenSort(_, _)
\* the blocks of a frame are kept sorted by (level, target_display_index)
GenSort(blocks, sorted) ==
    IF blocks = <<>> THEN sorted
    ELSE GenSort(Tail(blocks), GenInsert(sorted, Head(blocks)))

\* faulty variant of SceneRefreshFlag: a frame that a frame edit overrides starts a scene
SceneRefreshFlag_AtEdits(shot, f) ==
    IF f = shot.start
       \/ \E i \in 1..Len(shot.frame_edits) :
             shot.frame_edits[i].edit_offset = f - shot.start
    THEN 1 ELSE 0

\* step 5
SceneRefreshFlag(shot, f) == IF f = shot.start THEN 1 ELSE 0

DEFAULT_SOURCE_MIN_PQ == 7
DEFAULT_SOURCE_MAX_PQ == 3079

\* step 6, without the derivation from Level 6
SourcePq(given, default) == IF given = None THEN default ELSE given

\* steps 1 to 6 for frame f
GenerateFrame(config, f) ==
    LET shot == LocateShot(config.shots, f)
    IN  [scene_refresh_flag |-> SceneRefreshFlag(shot, f),
         source_min_pq |-> SourcePq(config.source_min_pq, DEFAULT_SOURCE_MIN_PQ),
         source_max_pq |-> SourcePq(config.source_max_pq, DEFAULT_SOURCE_MAX_PQ),
         blocks |-> GenSort(
             WithDerivedLevel2s(config,
                 EnsureConfigLevels(config, ComposeBlocks(config, shot, f))),
             <<>>)]

\* generate(config): the frames 0 .. length - 1
GenerateOp(config) == [i \in 1..config.length |-> GenerateFrame(config, i - 1)]

(***************************************************************************)
(* Inputs: the blocks handed to add_block and the payloads handed to       *)
(* parse. A payload is described as a block count, an alignment bit and a  *)
(* list of wire records [length_bytes, level, fields, pad]; the stream is  *)
(* ue(count), alignment, then per record ue(length_bytes), u8(level),      *)
(* the field bits and the padding bits.                                    *)
(***************************************************************************)
NonDefaultVector == <<128, 128, 130, 128, 128, 128>>

CustomPrimaries == <<34079, 15992, 13247, 34526, 7471, 2973, 15635, 16450>>

FixedPayload(level, v) ==
    WriteN(v, 12) \o Zeros(FixedRequiredBits(level) - 12)

AddUniverse ==
    { Level8Default,
      [Level8Default EXCEPT !.target_mid_contrast = 2000],
      [Level8Default EXCEPT !.target_display_index = 2,
                            !.hue_vector = NonDefaultVector],
      Level9Default,
      [Level9Default EXCEPT !.source_primary_index = 255,
                            !.primaries = CustomPrimaries],
      [Level10Default EXCEPT !.target_display_index = 255,
                             !.target_max_pq = 3000,
                             !.target_primary_index = 2],
      [Level10Default EXCEPT !.target_display_index = 2,
                             !.primaries = CustomPrimaries],
      [Level8Default EXCEPT !.clip_trim = 2100],
      [Level8Default EXCEPT !.saturation_vector = NonDefaultVector],
      [Level8Default EXCEPT !.trim_slope = MAX_12_BIT_VALUE + 1],
      [Level9Default EXCEPT !.primaries = [CustomPrimaries EXCEPT ![8] = None]],
      Level10Default,
      [Level10Default EXCEPT !.target_display_index = 3,
                             !.primaries = [CustomPrimaries EXCEPT ![1] = None]],
      [Level10Default EXCEPT !.target_display_index = 255,
                             !.target_max_pq = 5000],
      FixedBlock(1, FixedPayload(1, 7)),
      FixedBlock(2, FixedPayload(2, 2851)),
      FixedBlock(2, FixedPayload(2, 2081)),
      FixedBlock(3, FixedPayload(3, 2048)),
      FixedBlock(5, FixedPayload(5, 0)),
      FixedBlock(6, FixedPayload(6, 62)),
      FixedBlock(11, FixedPayload(11, 16)),
      FixedBlock(254, FixedPayload(254, 0)),
      ReservedBlock(7, 1, WriteN(1, 8)) }

RemoveLevels == {1, 8, 10, 254}

\* the bits of the mandatory Level 8 fields
Level8Base(tdi) ==
    WriteN(tdi, 8) \o WriteN(2048, 12) \o WriteN(2048, 12) \o WriteN(2048, 12)
    \o WriteN(2048, 12) \o WriteN(2048, 12) \o WriteN(2048, 12)

WireRec(len, level, fields, pad) ==
    [length_bytes |-> len, level |-> level, fields |-> fields, pad |-> pad]

WireRecs ==
    { WireRec(10, 8, Level8Base(1), <<>>),
      WireRec(25, 8, Level8Base(1) \o WriteN(2048, 12) \o WriteN(2048, 12)
                     \o WriteBytes(Level8Default.saturation_vector)
                     \o WriteBytes(Level8Default.hue_vector), <<>>),
      WireRec(25, 8, Level8Base(2) \o WriteN(2048, 12) \o WriteN(2048, 12)
                     \o WriteBytes(Level8Default.saturation_vector)
                     \o WriteBytes(NonDefaultVector), <<>>),
      WireRec(12, 8, Level8Base(1) \o WriteN(2000, 12), Zeros(4)),
      WireRec(12, 8, Level8Base(1) \o WriteN(2000, 12), <<0, 0, 0, 1>>),
      WireRec(11, 8, Level8Base(1), Zeros(8)),
      WireRec(1, 9, WriteN(0, 8), <<>>),
      WireRec(17, 9, WriteN(255, 8) \o WriteU16s(CustomPrimaries), <<>>),
      WireRec(5, 10, WriteN(255, 8) \o WriteN(3000, 12) \o WriteN(0, 12)
                     \o WriteN(2, 8), <<>>),
      WireRec(5, 10, WriteN(1, 8) \o WriteN(3000, 12) \o WriteN(0, 12)
                     \o WriteN(2, 8), <<>>),
      WireRec(21, 10, WriteN(2, 8) \o WriteN(3079, 12) \o WriteN(0, 12)
                      \o WriteN(255, 8) \o WriteU16s(CustomPrimaries), <<>>),
      WireRec(4, 11, FixedPayload(11, 16), <<>>),
      WireRec(5, 11, FixedPayload(11, 16), Zeros(8)),
      WireRec(5, 1, FixedPayload(1, 7), Zeros(4)),
      WireRec(5, 1, FixedPayload(1, 7), <<0, 1, 0, 0>>),
      WireRec(1, 7, WriteN(1, 8), <<>>) }

RECURSIVE SeqsUpTo(_, _)
\* the sequences over S of length at most n
SeqsUpTo(S, n) ==
    IF n = 0 THEN {<<>>}
    ELSE LET shorter == SeqsUpTo(S, n - 1)
         IN  shorter \cup {Append(q, x) : q \in shorter, x \in S}

Payload(num, align, recs) == [num |-> num, align |-> align, recs |-> recs]

\* well-formed payloads, and short ones with a wrong count or alignment bit
PayloadDescs ==
    {Payload(Len(rs), 0, rs) : rs \in SeqsUpTo(WireRecs, MaxRecs)}
    \cup {Payload(Len(rs) + 1, 0, rs) : rs \in SeqsUpTo(WireRecs, 1)}
    \cup {Payload(Len(rs), 1, rs) : rs \in SeqsUpTo(WireRecs, 1)}

\* ST.2094-10 payloads: the header fields, a CM v2.9 payload of at most one
\* record after them (also when the flag is 0), whole or cut inside
\* app_version
StDesc(app_identifier, app_version, flag, inner, cut) ==
    [app_identifier |-> app_identifier, app_version |-> app_version,
     flag |-> flag, inner |-> inner, cut |-> cut]

StDescs ==
    {StDesc(id, 1, flag, inner, FALSE) :
        id \in {0, 1}, flag \in {0, 1},
        inner \in {d \in PayloadDescs : Len(d.recs) <= 1}}
    \cup {StDesc(1, 1, 1, Payload(0, 0, <<>>), TRUE)}

RECURSIVE EncodeRecs(_)
EncodeRecs(recs) ==
    IF recs = <<>> THEN <<>>
    ELSE LET w == Head(recs)
         IN  WriteUe(w.length_bytes) \o WriteN(w.level, 8) \o w.fields \o w.pad
             \o EncodeRecs(Tail(recs))

\* the bits of a payload
Encode(desc) ==
    LET count == WriteUe(desc.num)
        k == (8 - (Len(count) % 8)) % 8
    IN  count \o [i \in 1..k |-> IF i = k THEN desc.align ELSE 0]
        \o EncodeRecs(desc.recs)

\* the bits of the header of an ST.2094-10 payload
StHeader(d) ==
    WriteUe(d.app_identifier) \o WriteUe(d.app_version) \o <<d.flag>>

\* the dm_alignment_zero_bits an ST.2094-10 payload holds
StAlignBits(d) ==
    (8 - ((Len(StHeader(d)) + Len(WriteUe(d.inner.num))) % 8)) % 8

\* the bits of an ST.2094-10 payload
StEncode(d) ==
    IF d.cut THEN WriteUe(d.app_identifier) \o <<0>>
    ELSE StHeader(d) \o WriteUe(d.inner.num)
         \o [i \in 1..StAlignBits(d) |->
                IF i = StAlignBits(d) THEN d.inner.align ELSE 0]
         \o EncodeRecs(d.inner.recs)

\* canvas sizes of XmlParserOpts
XmlOpts ==
    {[canvas_width |-> w, canvas_height |-> h] :
        w \in {None, 3840, 1920}, h \in {None, 2160, 1080}}

\* aspect ratios of an XML file as fractions
Ratios == {<<16, 9>>, <<32, 18>>, <<239, 100>>, <<4, 3>>, <<185, 100>>}

\* the AspectRatios text of a Level 5 trim, split
RatioLists ==
    {<<a, b>> : a \in Ratios \cup {NoRatio}, b \in Ratios \cup {NoRatio}}
    \cup {<<a>> : a \in Ratios}
    \cup {<<<<16, 9>>, <<239, 100>>, <<4, 3>>>>}

\* what the CLI commands build a processor with
ProcessorConfigs ==
    {[options |-> [drop_hdr10plus |-> d, discard_el |-> x, convert |-> c],
      writers |-> [bl |-> w[1], el |-> w[2], rpu |-> w[3], sl |-> w[4]]] :
        d \in {FALSE}, x \in {FALSE}, c \in BOOLEAN,
        w \in {<<FALSE, FALSE, TRUE, FALSE>>, <<TRUE, TRUE, FALSE, FALSE>>}}
    \cup
    {[options |-> [drop_hdr10plus |-> d, discard_el |-> d, convert |-> TRUE],
      writers |-> [bl |-> FALSE, el |-> FALSE, rpu |-> FALSE, sl |-> TRUE]] :
        d \in BOOLEAN}

\* decoded frame indexes of the NAL units of a stream
FrameIndexes == 0..2

\* the NAL units of a stream: RPU, EL, an HDR10+ SEI and a slice
NalKinds ==
    {[nal_type |-> t[1], decoded_frame_index |-> f, st2094_40 |-> t[2]] :
        t \in {<<NAL_UNSPEC62, FALSE>>, <<NAL_UNSPEC63, FALSE>>,
               <<NAL_SEI_PREFIX, TRUE>>, <<1, FALSE>>},
        f \in FrameIndexes}

\* parser.ordered_frames() of a stream of n frames: the frames in
\* presentation order, each with its decoded number
FrameOrders(n) ==
    {[i \in 1..n |-> [decoded_number |-> f[i], presentation_number |-> i - 1]] :
        f \in {g \in [1..n -> 0..(n - 1)] :
                  \A i, j \in 1..n : g[i] = g[j] => i = j}}

AllFrameOrders == UNION {FrameOrders(n) : n \in 0..(Cardinality(FrameIndexes))}

\* trims of an explicit Level 2, unlike those of any Level 8 below
ExplicitTrims(slope) == Level2Trims(slope, 2048, 2048, 2048, 2048, 2048)

GenTrim(target_display_index, slope) ==
    GenLevel8([Level8Default EXCEPT !.target_display_index = target_display_index,
                                    !.trim_slope = slope])

\* the blocks and frame edits a shot of a config has, by kind
ShotKinds == {"l8", "l2"}

ShotBlocks(kind) ==
    CASE kind = "l8" -> <<GenTrim(2, 2100)>>
      [] kind = "l2" -> <<GenLevel2(1, ExplicitTrims(1000))>>
      [] OTHER -> <<>>

ShotEdits(kind) ==
    CASE kind = "l8" -> <<[edit_offset |-> 1,
                           metadata_blocks |-> <<GenTrim(2, 2200)>>]>>
      [] kind = "l2" -> <<[edit_offset |-> 0,
                           metadata_blocks |-> <<GenTrim(1, 2300)>>]>>
      [] OTHER -> <<>>

\* a plan says of every frame whether a shot starts there, and of which kind
ShotPlans(n) ==
    {plan \in [1..n -> ShotKinds \cup {"none"}] : plan[1] # "none"}

\* the frame after the shot that starts at frame f (from 0)
ShotEnd(plan, f) ==
    IF \E g \in (f + 1)..(Len(plan) - 1) : plan[g + 1] # "none"
    THEN CHOOSE g \in (f + 1)..(Len(plan) - 1) :
            /\ plan[g + 1] # "none"
            /\ \A h \in (f + 1)..(g - 1) : plan[h + 1] = "none"
    ELSE Len(plan)

RECURSIVE ShotsOfPlan(_, _)
\* the shots of a plan from frame f on, sorted by start
ShotsOfPlan(plan, f) ==
    IF f >= Len(plan) THEN <<>>
    ELSE IF plan[f + 1] = "none" THEN ShotsOfPlan(plan, f + 1)
    ELSE <<[start |-> f, duration |-> ShotEnd(plan, f) - f,
            metadata_blocks |-> ShotBlocks(plan[f + 1]),
            frame_edits |-> ShotEdits(plan[f + 1])]>>
         \o ShotsOfPlan(plan, f + 1)

DefaultBlockLists ==
    {<<>>,
     <<GenTrim(1, 2048)>>,
     <<GenTrim(1, 2048), GenTrim(2, 2400), GenLevel2(1, ExplicitTrims(1300))>>}

Level6OfConfig ==
    [max_display_mastering_luminance |-> 1000,
     min_display_mastering_luminance |-> 1,
     max_content_light_level |-> 1000,
     max_frame_average_light_level |-> 400]

\* configs whose shots cover the frames 0 .. length - 1 without overlap
GenerateConfigs ==
    {[length |-> Len(plan), source_min_pq |-> c[1], source_max_pq |-> c[2],
      level5 |-> Level5Default, level6 |-> Level6OfConfig,
      default_metadata_blocks |-> c[3], shots |-> ShotsOfPlan(plan, 0),
      cm_version |-> v] :
        plan \in UNION {ShotPlans(n) : n \in 1..MaxFrames},
        c \in {<<None, None, d>> : d \in DefaultBlockLists}
                 \cup {<<10, 3000, <<>>>>},
        v \in CmVersions}

(***************************************************************************)
(* The state machine: one caller, one envelope at a time.                  *)
(*   env    the envelope held, or none (some = FALSE)                      *)
(*   input  the payload DmData::parse made env of, while env is as parsed *)
(*   output the result of the last write: [ok, bits, recs]                 *)
(*   last   the last operation: its name, outcome, argument, the envelope  *)
(*          before it and the per-block positions of a parse               *)
(*   dovi   the DoviProcessor at work, or none (status = "none")           *)
(***************************************************************************)
NoEnv == [some |-> FALSE, version |-> "V29", blocks |-> <<>>, num_ext_blocks |-> 0]

Some(meta) ==
    [some |-> TRUE, version |-> meta.version, blocks |-> meta.blocks,
     num_ext_blocks |-> meta.num_ext_blocks]

Meta(e) ==
    [version |-> e.version, blocks |-> e.blocks, num_ext_blocks |-> e.num_ext_blocks]

NoOutput == [ok |-> FALSE, bits |-> <<>>, recs |-> <<>>]

Op(op, ok, arg, pre, recs) ==
    [op |-> op, ok |-> ok, arg |-> arg, pre |-> pre, recs |-> recs]

Init ==
    /\ env = NoEnv
    /\ input = <<>>
    /\ output = NoOutput
    /\ last = Op("init", TRUE, 0, NoEnv, <<>>)
    /\ dovi = NoProcessor

Idle == ~env.some /\ last.op \in {"init", "drop"}

\* T::default()
New(v) ==
    /\ Idle
    /\ env' = Some(DefaultMeta(v))
    /\ input' = <<>>
    /\ output' = NoOutput
    /\ last' = Op("new", TRUE, v, NoEnv, <<>>)
    /\ UNCHANGED dovi

\* DmData::parse::<T>(reader)
ParseReturned(v, desc, p) ==
    /\ env' = IF p.ok THEN Some(p.meta) ELSE NoEnv
    /\ last' = Op("parse", p.ok, [version |-> v, desc |-> desc, err |-> p.err],
                  NoEnv, p.recs)

Parse(v, desc) ==
    /\ Idle
    /\ input' = Encode(desc)
    /\ ParseReturned(v, desc, DmDataParse(v, input'))
    /\ output' = NoOutput
    /\ UNCHANGED dovi

AddReturned(b, a) ==
    /\ env' = Some(a.meta)
    /\ last' = Op("add_block", a.ok, b, env, <<>>)

AddBlock(b) ==
    /\ env.some
    /\ Len(env.blocks) < MaxBlocks
    /\ AddReturned(b, AddBlockOp(Meta(env), b))
    /\ input' = <<>>
    /\ output' = NoOutput
    /\ UNCHANGED dovi

RemoveLevel(level) ==
    /\ env.some
    /\ env' = Some(RemoveLevelOp(Meta(env), level))
    /\ last' = Op("remove_level", TRUE, level, env, <<>>)
    /\ input' = <<>>
    /\ output' = NoOutput
    /\ UNCHANGED dovi

Write ==
    /\ env.some
    /\ last.op # "write"
    /\ output' = EnvelopeWrite(Meta(env))
    /\ last' = Op("write", output'.ok, 0, env, <<>>)
    /\ UNCHANGED <<env, input, dovi>>

\* ST2094_10DmData::parse(reader): env is the dm_data of the result, the
\* other fields of the result are kept in last.arg
St2094Returned(d, bits, s) ==
    /\ env' = IF s.ok /\ s.has_dm THEN Some(s.meta) ELSE NoEnv
    /\ last' = Op("st2094_10_parse", s.ok,
                  [desc |-> d, bits |-> bits, err |-> s.err,
                   app_identifier |-> s.app_identifier,
                   app_version |-> s.app_version,
                   metadata_refresh_flag |-> s.metadata_refresh_flag,
                   has_dm |-> s.has_dm, pos |-> s.pos],
                  NoEnv, s.recs)

ParseSt2094(d) ==
    /\ Idle
    /\ St2094Returned(d, StEncode(d), ST2094_10DmDataParse(StEncode(d)))
    /\ input' = <<>>
    /\ output' = NoOutput
    /\ UNCHANGED dovi

\* the caller lets go of the envelope, of the result of a call or of the
\* processor
Drop ==
    /\ ~Idle
    /\ env' = NoEnv
    /\ input' = <<>>
    /\ output' = NoOutput
    /\ last' = Op("drop", TRUE, 0, NoEnv, <<>>)
    /\ dovi' = NoProcessor

Next ==
    \/ \E v \in CmVersions : New(v)
    \/ \E v \in CmVersions, desc \in PayloadDescs : Parse(v, desc)
    \/ \E b \in AddUniverse : AddBlock(b)
    \/ \E level \in RemoveLevels : RemoveLevel(level)
    \/ \E d \in StDescs : ParseSt2094(d)
    \/ Write
    \/ Drop

Spec == Init /\ [][Next]_vars

(***************************************************************************)
(* The tool around the envelope: the XML parser's Level 5 derivation and   *)
(* the NAL processor. The outcome of a call is kept in last (recs is the   *)
(* value returned), the processor in dovi.                                 *)
(***************************************************************************)
XmlReturned(op, arg, r) ==
    last' = Op(op, r.ok, [opts |-> arg[1], ratios |-> arg[2], err |-> r.err,
                          asked |-> r.asked, calc |-> r.calc],
               NoEnv, r.level5)

\* parse_global_level5 of a parser whose config is the default
ParseGlobalLevel5(opts, canvas_ar, image_ar) ==
    /\ Idle
    /\ XmlReturned("parse_global_level5", <<opts, <<canvas_ar, image_ar>>>>,
                   ParseGlobalLevel5Op(Level5Default, opts, canvas_ar, image_ar))
    /\ UNCHANGED <<env, input, output, dovi>>

ParseLevel5Trim(opts, ratios) ==
    /\ Idle
    /\ XmlReturned("parse_level5_trim", <<opts, ratios>>,
                   ParseLevel5TrimOp(opts, ratios))
    /\ UNCHANGED <<env, input, output, dovi>>

StartProcessor(c) ==
    /\ Idle
    /\ dovi' = NewDoviProcessor(c.options, c.writers)
    /\ last' = Op("new_processor", TRUE, c, NoEnv, <<>>)
    /\ UNCHANGED <<env, input, output>>

\* the number of frames of the stream handled so far
FrameCount ==
    IF dovi.nals = <<>> THEN 0
    ELSE dovi.nals[Len(dovi.nals)].decoded_frame_index + 1

\* write_nals for the next NAL of the stream: it belongs to the frame of
\* the NAL before it or to the next frame
WriteNal(k, conv_ok) ==
    /\ dovi.status = "running"
    /\ last.op # "flush_writer"
    /\ Len(dovi.nals) < MaxNals
    /\ k.decoded_frame_index \in {FrameCount - 1, FrameCount}
    /\ dovi' = WriteNalOp(dovi, [nal_type |-> k.nal_type,
                                 decoded_frame_index |-> k.decoded_frame_index,
                                 st2094_40 |-> k.st2094_40,
                                 id |-> Len(dovi.nals) + 1], conv_ok)
    /\ last' = Op("write_nals", dovi'.status = "running", k, NoEnv, <<>>)
    /\ UNCHANGED <<env, input, output>>

\* finalize: flush_writer with the frames the parser has seen
FlushWriter(frames) ==
    /\ dovi.status = "running"
    /\ frames \in FrameOrders(FrameCount)
    /\ dovi' = FlushWriterOp(dovi, frames)
    /\ last' = Op("flush_writer", dovi'.status = "flushed", frames, NoEnv, <<>>)
    /\ UNCHANGED <<env, input, output>>

\* generate(config)
Generate(config) ==
    /\ Idle
    /\ last' = Op("generate", TRUE, config, NoEnv, GenerateOp(config))
    /\ UNCHANGED <<env, input, output, dovi>>

DoviNext ==
    \/ \E opts \in XmlOpts, canvas_ar \in Ratios \cup {NoRatio},
          image_ar \in Ratios \cup {NoRatio} :
            ParseGlobalLevel5(opts, canvas_ar, image_ar)
    \/ \E opts \in XmlOpts, ratios \in RatioLists : ParseLevel5Trim(opts, ratios)
    \/ \E c \in ProcessorConfigs : StartProcessor(c)
    \/ \E k \in NalKinds, conv_ok \in BOOLEAN : WriteNal(k, conv_ok)
    \/ \E frames \in AllFrameOrders : FlushWriter(frames)
    \/ \E config \in GenerateConfigs : Generate(config)
    \/ Drop

DoviSpec == Init /\ [][DoviNext]_vars

(***************************************************************************)
(* Properties.                                                             *)
(***************************************************************************)
Parsed == last.op = "parse"
ParsedOk == last.op = "parse" /\ last.ok
Wrote == last.op = "write"
WroteOk == last.op = "write" /\ output.ok

\* the wire records of the parsed payload that its count covers
CountedRecs ==
    SubSeq(last.arg.desc.recs, 1,
           IF last.arg.desc.num < Len(last.arg.desc.recs)
           THEN last.arg.desc.num ELSE Len(last.arg.desc.recs))

AllZero(bits, from, to) == \A i \in (from + 1)..to : bits[i] = 0

Count(seq, x) == Cardinality({i \in 1..Len(seq) : seq[i] = x})

Elems(seq) == {seq[i] : i \in 1..Len(seq)}

\* C1: for every payload that parse accepts, a write of the parsed envelope
\* that succeeds gives the payload back bit for bit.
C1_RoundTrip ==
    (Wrote /\ input # <<>> /\ output.ok) => output.bits = input

\* C2: after add_block or remove_level the blocks are sorted non-decreasingly
\* by (level, target_display_index), the index being the block's own for L2,
\* L8 and L10 and 0 for the other levels.
TargetDisplayKey(b) ==
    CASE b.variant = "Level8" -> <<8, b.target_display_index>>
      [] b.variant = "Level10" -> <<10, b.target_display_index>>
      [] b.variant = "Fixed" /\ b.level = 2 -> <<2, BitsVal(b.payload, 0, 12)>>
      [] OTHER -> <<Level(b), 0>>

C2_SortedByTargetDisplay ==
    (last.op \in {"add_block", "remove_level"} /\ last.ok) =>
        \A i \in 1..(Len(env.blocks) - 1) :
            KeyLeq(TargetDisplayKey(env.blocks[i]),
                   TargetDisplayKey(env.blocks[i + 1]))

\* required bits by level and declared length (the table of legal sizes)
TableBits(level, len) ==
    CASE level = 8 ->
           (CASE len = 10 -> 80 [] len = 12 -> 92 [] len = 13 -> 104
              [] len = 19 -> 152 [] len = 25 -> 200 [] OTHER -> -1)
      [] level = 9 -> (CASE len = 1 -> 8 [] len = 17 -> 136 [] OTHER -> -1)
      [] level = 10 -> (CASE len = 5 -> 40 [] len = 21 -> 168 [] OTHER -> -1)
      [] level \in FixedLevels -> FixedRequiredBits(level)
      [] OTHER -> 8 * len

RECURSIVE WalkEnd(_, _, _)
\* where n records end when each is ue(length), 8 bits of level and
\* 8 * length bits, starting at pos (-1 when the bits run out)
WalkEnd(bits, pos, n) ==
    IF n = 0 THEN pos
    ELSE IF ~GetUe([bits |-> bits, pos |-> pos, ok |-> TRUE]).ok THEN -1
    ELSE WalkEnd(bits,
                 GetUe([bits |-> bits, pos |-> pos, ok |-> TRUE]).r.pos + 8
                 + 8 * GetUe([bits |-> bits, pos |-> pos, ok |-> TRUE]).value,
                 n - 1)

\* the first byte boundary at or after the block count
BlocksStart(bits) == ((GetUe(Reader(bits)).r.pos + 7) \div 8) * 8

\* C3: every block occupies exactly 8*length_bytes bits after its header on
\* write and on read; write pads with 8*length_bytes - required_bits zero
\* bits, parse reads that many (by the declared length) and fails on a 1.
C3_BlockOccupiesDeclaredLength ==
    /\ WroteOk =>
        /\ Len(output.recs) = Len(env.blocks)
        /\ WalkEnd(output.bits, BlocksStart(output.bits), Len(output.recs))
             = Len(output.bits)
        /\ \A i \in 1..Len(output.recs) :
             /\ output.recs[i].end - output.recs[i].start
                  = 8 * output.recs[i].length_bytes
             /\ output.recs[i].end - output.recs[i].payload_end
                  = 8 * output.recs[i].length_bytes - RequiredBits(env.blocks[i])
             /\ AllZero(output.bits, output.recs[i].payload_end,
                        output.recs[i].end)
    /\ ParsedOk =>
        /\ Len(last.recs) = Len(CountedRecs)
        /\ \A i \in 1..Len(last.recs) :
             /\ last.recs[i].length_bytes = CountedRecs[i].length_bytes
             /\ last.recs[i].end - last.recs[i].start
                  = 8 * CountedRecs[i].length_bytes
             /\ last.recs[i].end - last.recs[i].payload_end
                  = 8 * CountedRecs[i].length_bytes
                    - TableBits(CountedRecs[i].level, CountedRecs[i].length_bytes)
             /\ AllZero(input, last.recs[i].payload_end, last.recs[i].end)
    /\ (Parsed /\ \E i \in 1..Len(CountedRecs) :
                     \E j \in 1..Len(CountedRecs[i].pad) :
                        CountedRecs[i].pad[j] = 1)
         => ~last.ok

C3_Witness ==
    /\ ParsedOk
    /\ \E i \in 1..Len(last.recs) : last.recs[i].end > last.recs[i].payload_end

VariableLevels == {8, 9, 10}

\* C4: for levels 8, 9 and 10, block parse consumes exactly the required bits
\* of the declared length and no padding bit, and a block write that succeeds
\* emits exactly required_bits() bits, as many as parse consumes for the
\* length that write declares.
C4_BlockBitsAgree ==
    /\ ParsedOk =>
        \A i \in 1..Len(last.recs) :
            last.recs[i].level \in VariableLevels =>
                last.recs[i].payload_end - last.recs[i].start
                  = TableBits(last.recs[i].level, last.recs[i].length_bytes)
    /\ WroteOk =>
        \A i \in 1..Len(output.recs) :
            output.recs[i].level \in VariableLevels =>
                /\ output.recs[i].payload_end - output.recs[i].start
                     = RequiredBits(env.blocks[i])
                /\ RequiredBits(env.blocks[i])
                     = TableBits(output.recs[i].level,
                                 output.recs[i].length_bytes)
                /\ CodecParse(output.recs[i].length_bytes, output.recs[i].level,
                              [bits |-> output.bits,
                               pos |-> output.recs[i].start,
                               ok |-> TRUE]).r.pos
                     = output.recs[i].payload_end

C4_Witness ==
    /\ WroteOk
    /\ input # <<>>
    /\ \E i \in 1..Len(output.recs) :
          output.recs[i].level = 8 /\ output.recs[i].length_bytes = 12

\* C5: parse fails, returning no envelope, when a block's declared length is
\* not legal for its level: the single size of a fixed-length level, or one
\* of {10,12,13,19,25}, {1,17}, {5,21} for levels 8, 9, 10 in CM v4.0.
LegalLengths(level) ==
    CASE level = 8 -> {10, 12, 13, 19, 25}
      [] level = 9 -> {1, 17}
      [] level = 10 -> {5, 21}
      [] OTHER -> {FixedBytesSize(level)}

IllegalLength(v, w) ==
    /\ \/ w.level \in FixedLevels
       \/ (v = "V40" /\ w.level \in VariableLevels)
    /\ w.length_bytes \notin LegalLengths(w.level)

C5_IllegalLengthFails ==
    (Parsed /\ \E i \in 1..Len(CountedRecs) :
                  IllegalLength(last.arg.version, CountedRecs[i]))
      => (~last.ok /\ ~env.some)

C5_Witness ==
    /\ Parsed
    /\ ~last.ok
    /\ last.arg.err = "length"
    /\ last.arg.version = "V40"
    /\ \E i \in 1..Len(CountedRecs) :
          CountedRecs[i].level = 8 /\ CountedRecs[i].length_bytes = 11

\* C6: parse fails whenever a block of the stream has a level outside the
\* version's ALLOWED_BLOCK_LEVELS, and a failed parse yields no envelope and
\* no partly filled block list.
C6_DisallowedLevelFails ==
    /\ (Parsed /\ \E i \in 1..Len(CountedRecs) :
                     CountedRecs[i].level
                       \notin ALLOWED_BLOCK_LEVELS(last.arg.version))
         => ~last.ok
    /\ (Parsed /\ ~last.ok) => (~env.some /\ env.blocks = <<>>)

C6_Witness ==
    /\ Parsed
    /\ ~last.ok
    /\ last.arg.err = "level"
    /\ Len(CountedRecs) = 2
    /\ CountedRecs[1].level \in ALLOWED_BLOCK_LEVELS(last.arg.version)
    /\ ~env.some

C8_CountMatchesBlocks ==
    /\ env.some => env.num_ext_blocks = Len(env.blocks)
    /\ WroteOk =>
        /\ GetUe(Reader(output.bits)).value = Len(output.recs)
        /\ Len(output.recs) = Len(env.blocks)

C8_Witness ==
    /\ last.op = "remove_level"
    /\ Len(env.blocks) > 0
    /\ Len(env.blocks) < Len(last.pre.blocks)

\* C9: after a successful add_block the envelope holds every block it held
\* before plus the new one, also when a block with the same
\* (level, target_display_index) is already there.
C9_AddBlockKeepsAll ==
    (last.op = "add_block" /\ last.ok) =>
        /\ Len(env.blocks) = Len(last.pre.blocks) + 1
        /\ env.num_ext_blocks = last.pre.num_ext_blocks + 1
        /\ \A x \in Elems(env.blocks) \cup Elems(last.pre.blocks) \cup {last.arg} :
             Count(env.blocks, x)
               = Count(last.pre.blocks, x) + (IF x = last.arg THEN 1 ELSE 0)

C9_Witness ==
    /\ last.op = "add_block"
    /\ last.ok
    /\ \E i \in 1..Len(last.pre.blocks) :
          TargetDisplayKey(last.pre.blocks[i]) = TargetDisplayKey(last.arg)

IsSortedByKey(blocks) ==
    \A i \in 1..(Len(blocks) - 1) :
        KeyLeq(SortKey(blocks[i]), SortKey(blocks[i + 1]))

\* the blocks of pre whose level is not the removed one, in pre's order
Kept == SelectSeq(last.pre.blocks, LAMBDA b : Level(b) # last.arg)

WithKey(blocks, k) == SelectSeq(blocks, LAMBDA b : SortKey(b) = k)

\* C10 as claimed: remove_level leaves every other block in unchanged
\* relative order, in every reachable state.
C10_RemoveKeepsOrder ==
    last.op = "remove_level" => env.blocks = Kept

\* C10 as amended: remove_level removes exactly the blocks of that level and
\* keeps every other block unchanged; the kept blocks are then sorted stably
\* by sort key, so blocks with equal keys keep their relative order and an
\* envelope that was sorted keeps its whole order; the count is the number
\* of kept blocks.
C10_RemoveKeepsBlocksAndResorts ==
    last.op = "remove_level" =>
        /\ \A x \in Elems(env.blocks) \cup Elems(last.pre.blocks) :
             Count(env.blocks, x) = Count(Kept, x)
        /\ \A i \in 1..Len(env.blocks) : Level(env.blocks[i]) # last.arg
        /\ IsSortedByKey(env.blocks)
        /\ \A i \in 1..Len(Kept) :
             WithKey(env.blocks, SortKey(Kept[i])) = WithKey(Kept, SortKey(Kept[i]))
        /\ IsSortedByKey(last.pre.blocks) => env.blocks = Kept
        /\ env.num_ext_blocks = Len(Kept)

C10_Witness ==
    /\ last.op = "remove_level"
    /\ \A i \in 1..Len(last.pre.blocks) : Level(last.pre.blocks[i]) # last.arg
    /\ ~IsSortedByKey(last.pre.blocks)
    /\ env.blocks # last.pre.blocks

\* some Level 8 block comes before one with a lower target_display_index
UnorderedL8(blocks) ==
    \E i, j \in 1..Len(blocks) :
        /\ i < j
        /\ Level(blocks[i]) = 8
        /\ Level(blocks[j]) = 8
        /\ blocks[i].target_display_index > blocks[j].target_display_index

\* C11: parse keeps the blocks in stream order, and a payload whose Level 8
\* blocks arrive out of target_display_index order is written back
\* byte-identical and parses again to the same envelope.
C11_UnorderedL8RoundTrip ==
    /\ ParsedOk =>
         \A i \in 1..Len(env.blocks) :
            /\ Level(env.blocks[i]) = CountedRecs[i].level
            /\ Level(env.blocks[i]) = 8 =>
                 env.blocks[i].target_display_index
                   = BitsVal(CountedRecs[i].fields, 0, 8)
    /\ (Wrote /\ input # <<>> /\ UnorderedL8(env.blocks)) =>
         /\ output.ok
         /\ output.bits = input
         /\ DmDataParse(env.version, output.bits).ok
         /\ DmDataParse(env.version, output.bits).meta = Meta(env)

\* length_bytes and required_bits of b are among its possible sizes, and the
\* padding count is not negative
WithinPossible(b) ==
    /\ Contains(PossibleLengthBytes(b), LengthBytes(b))
    /\ Contains(PossibleRequiredBits(b), RequiredBits(b))
    /\ 8 * LengthBytes(b) >= RequiredBits(b)
    /\ LengthBits(b) - RequiredBits(b) >= 0

C13_PresentGroupsGive25 ==
    ParsedOk =>
        \A i \in 1..Len(env.blocks) :
            (CountedRecs[i].level = 8 /\ CountedRecs[i].length_bytes = 25) =>
                /\ LengthBytes(env.blocks[i]) = 25
                /\ RequiredBits(env.blocks[i]) = 200

\* the optional groups of a Level 8 block that are encoded: a group is
\* present when one of its fields, or of a group outside it, is modified
HuePresent(b) == b.hue_vector # Level8Default.hue_vector
SatPresent(b) ==
    HuePresent(b) \/ b.saturation_vector # Level8Default.saturation_vector
ClipPresent(b) == SatPresent(b) \/ b.clip_trim # Level8Default.clip_trim
MidPresent(b) ==
    ClipPresent(b) \/ b.target_mid_contrast # Level8Default.target_mid_contrast

Absent(present) == IF present THEN 0 ELSE 1

\* length_bytes as claimed: one byte less for an absent target_mid_contrast
ClaimedBytesFromPresence(b) ==
    25 - 6 * Absent(HuePresent(b)) - 6 * Absent(SatPresent(b))
       - Absent(ClipPresent(b)) - Absent(MidPresent(b))

\* length_bytes with two bytes less for an absent target_mid_contrast
BytesFromPresence(b) ==
    25 - 6 * Absent(HuePresent(b)) - 6 * Absent(SatPresent(b))
       - Absent(ClipPresent(b)) - 2 * Absent(MidPresent(b))

BitsFromPresence(b) ==
    200 - 48 * Absent(HuePresent(b)) - 48 * Absent(SatPresent(b))
        - 12 * Absent(ClipPresent(b)) - 12 * Absent(MidPresent(b))

Level8SizeIs(b, bytes) ==
    /\ LengthBytes(b) = bytes
    /\ RequiredBits(b) = BitsFromPresence(b)
    /\ LengthBytes(b) \in {10, 12, 13, 19, 25}
    /\ RequiredBits(b) \in {80, 92, 104, 152, 200}
    /\ ~MidPresent(b) => (LengthBytes(b) = 10 /\ RequiredBits(b) = 80)

\* C14 as claimed: the length_bytes of a Level 8 block is 25 minus 6, 6, 1
\* and 1 for an absent hue vector, saturation vector, clip_trim and
\* target_mid_contrast, its required_bits is 200 minus 48, 48, 12 and 12,
\* both are legal sizes, and all groups absent give 10 and 80.
C14_Level8SizeAsClaimed ==
    /\ env.some =>
         \A i \in 1..Len(env.blocks) :
            Level(env.blocks[i]) = 8 =>
                Level8SizeIs(env.blocks[i], ClaimedBytesFromPresence(env.blocks[i]))
    /\ (last.op = "add_block" /\ Level(last.arg) = 8) =>
         Level8SizeIs(last.arg, ClaimedBytesFromPresence(last.arg))

\* C14 as amended: length_bytes is 25 minus 6, 6, 1 and 2 (two bytes for an
\* absent target_mid_contrast), required_bits is 200 minus 48, 48, 12 and
\* 12, both are legal sizes, all groups absent give 10 and 80, and write
\* declares and emits exactly these sizes. A group counts as present when
\* one of its fields, or of a group outside it, differs from the default.
C14_Level8SizeFromPresence ==
    /\ env.some =>
         \A i \in 1..Len(env.blocks) :
            Level(env.blocks[i]) = 8 =>
                Level8SizeIs(env.blocks[i], BytesFromPresence(env.blocks[i]))
    /\ (last.op = "add_block" /\ Level(last.arg) = 8) =>
         Level8SizeIs(last.arg, BytesFromPresence(last.arg))
    /\ WroteOk =>
         \A i \in 1..Len(output.recs) :
            output.recs[i].level = 8 =>
                /\ output.recs[i].length_bytes = BytesFromPresence(env.blocks[i])
                /\ output.recs[i].payload_end - output.recs[i].start
                     = BitsFromPresence(env.blocks[i])

C14_Witness ==
    /\ WroteOk
    /\ \E i \in 1..Len(output.recs) :
          /\ output.recs[i].level = 8
          /\ output.recs[i].length_bytes = 13
          /\ env.blocks[i].target_mid_contrast = Level8Default.target_mid_contrast
    /\ \E i \in 1..Len(output.recs) :
          /\ output.recs[i].level = 8
          /\ output.recs[i].length_bytes = 10

AllPresent(p) == \A i \in 1..8 : p[i] # None

\* the length and payload bits of a written Level 9 or 10 record follow
\* from the presence of all eight primaries
WrittenByPrimaries(rec, b) ==
    /\ rec.level = 9 =>
         IF AllPresent(b.primaries)
         THEN rec.length_bytes = 17 /\ rec.payload_end - rec.start = 136
         ELSE rec.length_bytes = 1 /\ rec.payload_end - rec.start = 8
    /\ rec.level = 10 =>
         IF AllPresent(b.primaries)
         THEN rec.length_bytes = 21 /\ rec.payload_end - rec.start = 168
         ELSE rec.length_bytes = 5 /\ rec.payload_end - rec.start = 40

\* a parsed Level 9 or 10 block holds the eight primaries of the wire when
\* the declared length is above the short form, and none otherwise
ParsedPrimaries(w, b) ==
    /\ w.level = 9 =>
         IF w.length_bytes > 1
         THEN b.primaries = [i \in 1..8 |-> BitsVal(w.fields, 8 + 16 * (i - 1), 16)]
         ELSE b.primaries = NoPrimaries
    /\ w.level = 10 =>
         IF w.length_bytes > 5
         THEN b.primaries = [i \in 1..8 |-> BitsVal(w.fields, 40 + 16 * (i - 1), 16)]
         ELSE b.primaries = NoPrimaries

NoAbsentUnwrapped(b) ==
    /\ Level(b) = 9 => UnwrapsAll(Level9Unwrapped(b))
    /\ Level(b) = 10 => UnwrapsAll(Level10Unwrapped(b))

\* C15: a Level 9 block is written as 17 bytes and 136 bits exactly when all
\* eight primaries are present and as 1 byte and 8 bits otherwise, a Level 10
\* block as 21 bytes and 168 bits or 5 bytes and 40 bits; parse sets the
\* eight primaries exactly when the declared length is above the short form;
\* write never unwraps an absent primary.
C15_PrimariesDecideLength ==
    /\ WroteOk =>
         \A i \in 1..Len(output.recs) :
            WrittenByPrimaries(output.recs[i], env.blocks[i])
    /\ ParsedOk =>
         \A i \in 1..Len(env.blocks) :
            ParsedPrimaries(CountedRecs[i], env.blocks[i])
    /\ env.some => \A i \in 1..Len(env.blocks) : NoAbsentUnwrapped(env.blocks[i])
    /\ last.op = "add_block" => NoAbsentUnwrapped(last.arg)

C15_Witness ==
    /\ WroteOk
    /\ \E i \in 1..Len(output.recs) :
          /\ output.recs[i].level \in {9, 10}
          /\ ~AllPresent(env.blocks[i].primaries)
          /\ env.blocks[i].primaries # NoPrimaries
    /\ \E i \in 1..Len(output.recs) :
          /\ output.recs[i].level \in {9, 10}
          /\ AllPresent(env.blocks[i].primaries)

\* the index of the block whose write failed, after a failed envelope write
FailedAt == Len(output.recs) + 1

\* where the writer stood before the header of the block that failed
FailedHeaderStart ==
    IF output.recs = <<>> THEN BlocksStart(output.bits)
    ELSE output.recs[Len(output.recs)].end

\* the writer ends with the header (ue(length), 8 bits of level) of the
\* block that failed
EndsWithFailedHeader ==
    LET u == GetUe([bits |-> output.bits, pos |-> FailedHeaderStart, ok |-> TRUE])
    IN  /\ u.ok
        /\ u.r.pos + 8 = Len(output.bits)
        /\ BitsVal(output.bits, u.r.pos, 8) = Level(env.blocks[FailedAt])

ClaimedPresets == {1, 16, 18, 21, 27, 28, 37, 38, 42, 48, 49}

PresetLevel10(b) ==
    Level(b) = 10 /\ b.target_display_index \in ClaimedPresets

CustomLevel10(b) ==
    /\ Level(b) = 10
    /\ b.target_display_index \notin ClaimedPresets
    /\ b.target_max_pq <= 4095
    /\ b.target_min_pq <= 4095

ValidatesAsClaimed(b) ==
    /\ PresetLevel10(b) => ~Level10Validate(b)
    /\ CustomLevel10(b) => Level10Validate(b)

\* C16: a Level 10 block whose target_display_index is one of 1, 16, 18, 21,
\* 27, 28, 37, 38, 42, 48, 49 fails validation, and its write fails with no
\* bit of its payload emitted (the writer ends with its header); a Level 10
\* block with another index and PQ values of at most 4095 validates and is
\* written.
C16_PresetIndexFailsValidation ==
    /\ env.some => \A i \in 1..Len(env.blocks) : ValidatesAsClaimed(env.blocks[i])
    /\ last.op = "add_block" => ValidatesAsClaimed(last.arg)
    /\ Wrote =>
         /\ \A i \in 1..Len(output.recs) : ~PresetLevel10(env.blocks[i])
         /\ (\E i \in 1..Len(env.blocks) : PresetLevel10(env.blocks[i]))
               => ~output.ok
         /\ ~output.ok =>
               /\ ~CustomLevel10(env.blocks[FailedAt])
               /\ PresetLevel10(env.blocks[FailedAt]) => EndsWithFailedHeader

C16_Witness ==
    /\ Wrote
    /\ ~output.ok
    /\ Len(output.recs) = 1
    /\ CustomLevel10(env.blocks[1])
    /\ PresetLevel10(env.blocks[2])

\* the 12-bit fields of a Level 8 or Level 10 block
TwelveBitFields(b) ==
    CASE Level(b) = 8 ->
           {b.trim_slope, b.trim_offset, b.trim_power, b.trim_chroma_weight,
            b.trim_saturation_gain, b.ms_weight, b.target_mid_contrast,
            b.clip_trim}
      [] Level(b) = 10 -> {b.target_max_pq, b.target_min_pq}
      [] OTHER -> {}

\* C17: every 12-bit field of a Level 8 or Level 10 block that write
\* accepts is at most 4095, and the Level 10 target_max_pq and target_min_pq
\* on the wire are the values of the block (nothing is truncated).
C17_TwelveBitFieldsInRange ==
    Wrote =>
       \A i \in 1..Len(output.recs) :
          /\ \A v \in TwelveBitFields(env.blocks[i]) : v <= 4095
          /\ Level(env.blocks[i]) = 10 =>
                /\ BitsVal(output.bits, output.recs[i].start + 8, 12)
                     = env.blocks[i].target_max_pq
                /\ BitsVal(output.bits, output.recs[i].start + 20, 12)
                     = env.blocks[i].target_min_pq

\* C18: when an envelope write fails on a block's validation, nothing has
\* been written: no block count, no block header, no earlier block.
C18_FailedWriteWritesNothing ==
    (Wrote /\ ~output.ok) => output.bits = <<>>

\* the level codes that have a codec of their own
KnownLevels == {1, 2, 3, 4, 5, 6, 8, 9, 10, 11, 254}

\* the parsed payload is well-formed and all its records have unknown levels
OnlyUnknownLevels ==
    /\ last.arg.desc.num = Len(last.arg.desc.recs)
    /\ last.arg.desc.align = 0
    /\ last.arg.desc.recs # <<>>
    /\ \A i \in 1..Len(last.arg.desc.recs) :
          /\ last.arg.desc.recs[i].level \notin KnownLevels
          /\ Len(last.arg.desc.recs[i].fields)
               = 8 * last.arg.desc.recs[i].length_bytes
          /\ last.arg.desc.recs[i].pad = <<>>

\* C19: a stream whose blocks have unknown level codes parses successfully,
\* every such block is kept as a Reserved block holding the level and the
\* declared length of raw bytes, and writing the envelope gives the stream
\* back.
C19_UnknownLevelRoundTrips ==
    (Parsed /\ OnlyUnknownLevels) =>
        /\ last.ok
        /\ env.some
        /\ Len(env.blocks) = Len(last.arg.desc.recs)
        /\ \A i \in 1..Len(env.blocks) :
              env.blocks[i] = ReservedBlock(last.arg.desc.recs[i].level,
                                            last.arg.desc.recs[i].length_bytes,
                                            last.arg.desc.recs[i].fields)
        /\ EnvelopeWrite(Meta(env)).ok
        /\ EnvelopeWrite(Meta(env)).bits = input

ParsedSt2094 == last.op = "st2094_10_parse"

\* the number of bits of app_identifier, app_version and the flag
HeaderBits(d) == Len(WriteUe(d.app_identifier)) + Len(WriteUe(d.app_version)) + 1

\* what parsing the CM v2.9 envelope of payload d on its own gives: a set
\* alignment bit fails it, otherwise it is the parse of the envelope's
\* count, zero alignment and blocks
InnerAlone(d) ==
    IF StAlignBits(d) > 0 /\ d.inner.align = 1
    THEN ParseFailed("V29", "alignment")
    ELSE DmDataParse("V29", Encode([d.inner EXCEPT !.align = 0]))

HeaderAsRead(d, flag) ==
    /\ last.arg.app_identifier = d.app_identifier
    /\ last.arg.app_version = d.app_version
    /\ last.arg.metadata_refresh_flag = flag

\* C20: the ST.2094-10 parse reads app_identifier, app_version and
\* metadata_refresh_flag; with the flag 0 it succeeds without DM data and
\* stops right after the flag; with the flag 1 it parses a CM v2.9 envelope
\* and succeeds with that envelope or fails with that parse's error and no
\* result; a payload that ends inside the header fails.
C20_St2094ParseFollowsFlag ==
    ParsedSt2094 =>
        /\ last.arg.desc.cut => (~last.ok /\ ~env.some /\ ~last.arg.has_dm)
        /\ (~last.arg.desc.cut /\ last.arg.desc.flag = 0) =>
              /\ last.ok
              /\ HeaderAsRead(last.arg.desc, FALSE)
              /\ ~last.arg.has_dm
              /\ ~env.some
              /\ last.arg.pos = HeaderBits(last.arg.desc)
        /\ (~last.arg.desc.cut /\ last.arg.desc.flag = 1) =>
              /\ last.ok = InnerAlone(last.arg.desc).ok
              /\ last.ok =>
                    /\ HeaderAsRead(last.arg.desc, TRUE)
                    /\ last.arg.has_dm
                    /\ env = Some(InnerAlone(last.arg.desc).meta)
              /\ ~last.ok =>
                    /\ last.arg.err = InnerAlone(last.arg.desc).err
                    /\ ~last.arg.has_dm
                    /\ ~env.some

C20_Witness ==
    /\ ParsedSt2094
    /\ last.arg.desc.flag = 1
    /\ ~last.arg.desc.cut
    /\ Len(last.arg.desc.inner.recs) = 1
    /\ last.arg.desc.inner.num = 1
    /\ last.arg.desc.inner.align = 0
    /\ ~last.ok
    /\ ~env.some

\* the blocks in insertion order that an operation leaves in the envelope
Inserted ==
    IF last.op = "add_block" THEN Append(last.pre.blocks, last.arg) ELSE Kept

\* C26: through every add_block and remove_level the blocks that share a
\* sort key keep their insertion order (an added block comes last among
\* its key) and the list is sorted by key, so the resulting order is fixed
\* by the sequence of operations alone.
C26_EqualKeysKeepInsertionOrder ==
    ((last.op = "add_block" /\ last.ok) \/ last.op = "remove_level") =>
        /\ Len(env.blocks) = Len(Inserted)
        /\ IsSortedByKey(env.blocks)
        /\ \A i \in 1..Len(Inserted) :
              WithKey(env.blocks, SortKey(Inserted[i]))
                = WithKey(Inserted, SortKey(Inserted[i]))

C26_Witness ==
    /\ last.op = "add_block"
    /\ last.ok
    /\ Len(env.blocks) = 2
    /\ SortKey(env.blocks[1]) = SortKey(env.blocks[2])
    /\ env.blocks[1] # env.blocks[2]
    /\ env.blocks[2] = last.arg
    /\ Level(last.arg) = 10
    /\ env.blocks[1].target_display_index > last.arg.target_display_index

\* parsing what write made of a Level 8 block, with the length the envelope
\* declares for it, gives the block back
Level8ReadsBack(b) ==
    Level8Parse(LengthBytes(b), Reader(Level8Write(b).bits)).block = b

\* C29: for every Level 8 block that passes validation, parsing the bits
\* that write produced, with the declared length, yields a block equal in
\* every field, the optional fields that were left out included; this also
\* holds for the bits of the block inside a written envelope.
C29_Level8WriteThenParse ==
    /\ env.some =>
         \A i \in 1..Len(env.blocks) :
            (Level(env.blocks[i]) = 8 /\ Level8Validate(env.blocks[i]))
               => Level8ReadsBack(env.blocks[i])
    /\ (last.op = "add_block" /\ Level(last.arg) = 8 /\ Level8Validate(last.arg))
         => Level8ReadsBack(last.arg)
    /\ WroteOk =>
         \A i \in 1..Len(output.recs) :
            output.recs[i].level = 8 =>
               Level8Parse(output.recs[i].length_bytes,
                           [bits |-> output.bits,
                            pos |-> output.recs[i].start,
                            ok |-> TRUE]).block = env.blocks[i]

C29_Witness ==
    /\ WroteOk
    /\ Len(output.recs) = 2
    /\ output.recs[1].level = 8
    /\ output.recs[1].length_bytes = 13
    /\ env.blocks[1].target_mid_contrast = 2048
    /\ output.recs[2].level = 8
    /\ output.recs[2].length_bytes = 25
    /\ env.blocks[2].saturation_vector = <<128, 128, 128, 128, 128, 128>>

DefaultBlocks == {Level8Default, Level9Default, Level10Default}

ValidatesItself(b) ==
    /\ Level(b) = 8 => Level8Validate(b)
    /\ Level(b) = 10 => Level10Validate(b)

\* C30: a default-constructed block of each of the levels 8, 9 and 10
\* passes its own validation, is accepted by add_block of a CM v4.0
\* envelope and is written by the envelope writer without an error.
C30_DefaultBlocksAreWritten ==
    /\ (last.op = "add_block" /\ env.version = "V40"
          /\ last.arg \in DefaultBlocks)
         => (last.ok /\ ValidatesItself(last.arg))
    /\ (Wrote /\ \A i \in 1..Len(env.blocks) : env.blocks[i] \in DefaultBlocks)
         => output.ok

ParsedLevel5 == last.op \in {"parse_global_level5", "parse_level5_trim"}

\* the derivation was asked for with both canvas sizes known
DerivedLevel5 ==
    /\ ParsedLevel5
    /\ last.arg.asked
    /\ last.arg.opts.canvas_width # None
    /\ last.arg.opts.canvas_height # None

\* h is n / d rounded to the nearest integer, a half going up
IsRounded(h, n, d) == 2 * h * d - d <= 2 * n /\ 2 * n < 2 * h * d + d

Differ(a, b) == IF a < b THEN b - a ELSE a - b

\* the offsets of the claim for canvas ratio car and image ratio iar
OffsetsAsClaimed(l5, cw, ch, car, iar) ==
    /\ car[1] * iar[2] = iar[1] * car[2] => l5 = Level5FromOffsets(0, 0, 0, 0)
    /\ iar[1] * car[2] > car[1] * iar[2] =>
         /\ l5.active_area_left_offset = 0
         /\ l5.active_area_right_offset = 0
         /\ \E h \in 0..ch :
               /\ IsRounded(h, ch * car[1] * iar[2], car[2] * iar[1])
               /\ l5.active_area_top_offset + l5.active_area_bottom_offset
                    = ch - h
         /\ Differ(l5.active_area_top_offset, l5.active_area_bottom_offset) <= 1
    /\ iar[1] * car[2] < car[1] * iar[2] =>
         /\ l5.active_area_top_offset = 0
         /\ l5.active_area_bottom_offset = 0
         /\ \E w \in 0..cw :
               /\ IsRounded(w, cw * iar[1] * car[2], iar[2] * car[1])
               /\ l5.active_area_left_offset + l5.active_area_right_offset
                    = cw - w
         /\ Differ(l5.active_area_left_offset, l5.active_area_right_offset) <= 1

\* C23: the Level 5 derivation gives all offsets 0 when the canvas and image
\* ratios are equal; for a wider image left = right = 0, top + bottom is
\* CH - round(CH * CAR / IAR) and top and bottom differ by at most 1; for a
\* narrower image top = bottom = 0, left + right is
\* CW - round(CW * IAR / CAR) and left and right differ by at most 1.
C23_Level5OffsetsFromRatios ==
    DerivedLevel5 =>
        /\ last.arg.calc.ok
        /\ last.recs = last.arg.calc.level5
        /\ OffsetsAsClaimed(last.arg.calc.level5,
                            last.arg.opts.canvas_width,
                            last.arg.opts.canvas_height,
                            last.arg.ratios[1], last.arg.ratios[2])

C23_Witness ==
    /\ DerivedLevel5
    /\ last.arg.ratios = <<<<185, 100>>, <<16, 9>>>>
    /\ last.arg.opts.canvas_width = 1920
    /\ last.recs.active_area_left_offset = 37
    /\ last.recs.active_area_left_offset + 1 = last.recs.active_area_right_offset

\* the derivation for a 3840x2160 canvas of ratio 16/9 and an image of
\* ratio 2.39
Uhd239 ==
    /\ DerivedLevel5
    /\ last.arg.opts = [canvas_width |-> 3840, canvas_height |-> 2160]
    /\ last.arg.ratios = <<<<16, 9>>, <<239, 100>>>>

\* C24 as claimed: for CW = 3840, CH = 2160, CAR = 16/9 and IAR = 2.39 the
\* image height is 1606, the difference 554, top 277, bottom 277 and
\* left = right = 0.
C24_Uhd239AsClaimed ==
    Uhd239 =>
        /\ last.arg.calc.image_size = 1606
        /\ last.arg.calc.diff = 554
        /\ last.recs = Level5FromOffsets(0, 0, 277, 277)

\* C24 as amended: for CW = 3840, CH = 2160, CAR = 16/9 and IAR = 2.39 the
\* image height is 1607 (2160 * (16/9) / 2.39 is 1606.69), the difference
\* 553, top 276, bottom 277 and left = right = 0.
C24_Uhd239Derived ==
    Uhd239 =>
        /\ last.arg.calc.image_size = 1607
        /\ last.arg.calc.diff = 553
        /\ last.recs = Level5FromOffsets(0, 0, 276, 277)

C24_Witness ==
    /\ Uhd239
    /\ last.op = "parse_level5_trim"
    /\ last.ok
    /\ last.recs.active_area_top_offset = 276

\* C25: when the derivation is asked for and the canvas width or height is
\* missing, the parse that asked (of the global Level 5 or of a Level 5
\* trim) fails with the missing-canvas error.
C25_MissingCanvasFailsParse ==
    (ParsedLevel5 /\ last.arg.asked
       /\ (last.arg.opts.canvas_width = None
             \/ last.arg.opts.canvas_height = None))
      => (~last.ok
          /\ last.arg.err \in {"Missing canvas width to calculate L5",
                                 "Missing canvas height to calculate L5"})

\* the NALs (by id) of which a piece reached the EL file, the RPU list or
\* the single-layer file
ReachedOutput ==
    {dovi.el_out[i][2] : i \in 1..Len(dovi.el_out)}
    \cup {dovi.sl_out[i][2] : i \in 1..Len(dovi.sl_out)}
    \cup {dovi.rpu_nals[i].data[2] : i \in 1..Len(dovi.rpu_nals)}

\* the RPU NALs (by id) of decoded frame f handled so far
RpuNalsOfFrame(f) ==
    {i \in 1..Len(dovi.nals) :
        /\ dovi.nals[i].nal_type = NAL_UNSPEC62
        /\ dovi.nals[i].decoded_frame_index = f}

\* C27: for every decoded frame index at most one RPU NAL (UNSPEC62)
\* reaches an output (EL file, RPU list or single-layer file), whatever the
\* frame index and whichever writers are configured: a second RPU NAL of a
\* frame is discarded.
C27_OneRpuPerFrameReachesOutput ==
    dovi.status # "none" =>
        \A f \in FrameIndexes :
            Cardinality(RpuNalsOfFrame(f) \cap ReachedOutput) <= 1

\* the presentation number of the frame whose decoded number is that of
\* the NAL that carried the RPU
CarrierPresentation(frames, rpu) ==
    LET f == dovi.nals[rpu.data[2]].decoded_frame_index
    IN  (CHOOSE i \in 1..Len(frames) : frames[i].decoded_number = f) - 1

Flushed ==
    /\ last.op = "flush_writer"
    /\ dovi.writers.rpu
    /\ last.arg # <<>>

\* C28: at flush the collected RPU NALs are written in display order: each
\* RPU is placed by the presentation number of the frame whose decoded
\* index is the decoded_frame_index of the NAL that carried it, its
\* presentation_number is its position 0..n-1, and the file holds the RPUs
\* in that order.
C28_RpusWrittenInDisplayOrder ==
    Flushed =>
        /\ dovi.status = "flushed"
        /\ \A i, j \in 1..Len(dovi.rpu_nals) :
              i < j => CarrierPresentation(last.arg, dovi.rpu_nals[i])
                         <= CarrierPresentation(last.arg, dovi.rpu_nals[j])
        /\ \A i \in 1..Len(dovi.rpu_nals) :
              dovi.rpu_nals[i].presentation_number = i - 1
        /\ dovi.rpu_out = WriteRpus(dovi.rpu_nals)

Generated == last.op = "generate"

\* the blocks of frame i before step 4
ComposedBlocks(i) ==
    EnsureConfigLevels(last.arg,
        ComposeBlocks(last.arg, LocateShot(last.arg.shots, i - 1), i - 1))

BlocksOfLevel(blocks, level) ==
    {blocks[k] : k \in {j \in 1..Len(blocks) : blocks[j].level = level}}

\* how many blocks of the list have this level and target
CountOf(blocks, level, target_display_index) ==
    Cardinality({k \in 1..Len(blocks) :
                    GenKey(blocks[k]) = <<level, target_display_index>>})

\* the Level 2 the frame must hold for a Level 8: the explicit one of the
\* composed list, else the one derived from the Level 8
Level2For(composed, l8) ==
    IF HasKey(composed, <<2, l8.target_display_index>>)
    THEN CHOOSE b \in BlocksOfLevel(composed, 2) :
            b.target_display_index = l8.target_display_index
    ELSE Level2FromLevel8(l8)

\* C21: in every frame generated with CM v4.0 that has a Level 8 block
\* there is exactly one Level 2 for each Level 8 target_display_index: the
\* explicit Level 2 of that target when there is one, else a Level 2
\* derived from the Level 8; the Level 8 blocks are those of the composed
\* list, unchanged.
C21_OneLevel2PerLevel8Target ==
    (Generated /\ last.arg.cm_version = "V40") =>
        \A i \in 1..Len(last.recs) :
            /\ BlocksOfLevel(last.recs[i].blocks, 8)
                 = BlocksOfLevel(ComposedBlocks(i), 8)
            /\ Level8sOf(last.recs[i].blocks) = Level8sOf(ComposedBlocks(i))
            /\ \A l8 \in BlocksOfLevel(last.recs[i].blocks, 8) :
                  /\ CountOf(last.recs[i].blocks, 2, l8.target_display_index) = 1
                  /\ Level2For(ComposedBlocks(i), l8)
                       \in BlocksOfLevel(last.recs[i].blocks, 2)

\* a CM v4.0 frame with two Level 8 blocks, the shot's explicit Level 2 for
\* target 1 and a Level 2 derived from the default Level 8 of target 2
C21_Witness ==
    /\ Generated
    /\ last.arg.cm_version = "V40"
    /\ \E i \in 1..Len(last.recs) :
          /\ CountOf(last.recs[i].blocks, 8, 1) = 1
          /\ CountOf(last.recs[i].blocks, 8, 2) = 1
          /\ GenLevel2(1, ExplicitTrims(1000))
               \in BlocksOfLevel(last.recs[i].blocks, 2)
          /\ Level2FromLevel8(GenTrim(2, 2400))
               \in BlocksOfLevel(last.recs[i].blocks, 2)

StartsShot(f) ==
    \E k \in 1..Len(last.arg.shots) : last.arg.shots[k].start = f

\* frame f is one that a frame edit of its shot overrides
EditedFrame(f) ==
    LET shot == LocateShot(last.arg.shots, f)
    IN  \E k \in 1..Len(shot.frame_edits) :
            shot.frame_edits[k].edit_offset = f - shot.start

====
